---- MODULE Spec2Model ----
(***************************************************************************)
(* Model of the background job-processing engine (services/jobProcessor.ts)*)
(* together with the parts of services/scraperService.ts (fetchDigest) and *)
(* services/enrichmentService.ts (enrichSingle) that decide the outcome of *)
(* a job item.                                                             *)
(*                                                                         *)
(* The Store (Supabase) is the shared state.  Every await in the source is *)
(* a suspension point: one action of the model is the completion of one    *)
(* awaited call followed by the synchronous code up to the next await.     *)
(***************************************************************************)
EXTENDS Integers, Sequences, FiniteSets, TLC

(***************************************************************************)
(* Bounds of the model                                                     *)
(***************************************************************************)
NItems == 3          \* job items enqueued (Spec)
RecoveryItems == 1   \* job items enqueued (SpecRecovery)
RecoveryCrashes == 2 \* process crashes (SpecRecovery)
RecoveryCalls == 2   \* recoverStaleJobs() calls (SpecRecovery)
ControlItems == 1    \* job items enqueued (SpecControl)
ControlStarts == 2   \* start() calls that find the controller stopped (SpecControl)
ControlStops == 2    \* stop() calls that set the flag (SpecControl)
ControlRecovers == 1 \* recoverStaleJobs() calls (SpecControl)
ControlRestarts == 1 \* start() calls that find the controller running (SpecControl)
LiveItems == 1       \* job items enqueued (SpecLive)
StopItems == 1       \* job items enqueued (SpecStop)
StopStarts == 2      \* start() calls that find the controller stopped (SpecStop)
StopStops == 1       \* stop() calls that set the flag (SpecStop)
StopRestarts == 1    \* start() calls that find the controller running (SpecStop)
TwoItems == 1        \* job items enqueued (SpecTwo)
TwoClaims == 1       \* chunks claimed by each controller (SpecTwo)
CachedItems == 1      \* job items enqueued (SpecCached)
SharedItems == 2      \* job items enqueued (SpecShared)
FaultItems == 1      \* job items enqueued (SpecFault)
FaultThrows == 2     \* exceptions thrown inside processNextChunk (SpecFault)
MaxBelowZero == 300      \* normalizeConfidence is given the numbers from -MaxBelowZero ...
MaxConfidence == 10100   \* ... to MaxConfidence, in hundredths (-3.00 to 101.00)

(***************************************************************************)
(* Tuning parameters (jobProcessor.ts:13-17).  The source reads them from  *)
(* the environment; the model runs a small configuration.                  *)
(***************************************************************************)
QUEUE_FETCH_CHUNK_SIZE == 2
CONCURRENCY_SCRAPE == 1
CONCURRENCY_AI == 1
MAX_RETRIES == 3
POLL_INTERVAL_MS == 2000
RETRY_BASE_MS == 2000
ERROR_BACKOFF_MS == 5000
CACHE_MIN_CONFIDENCE == 7

Null == -1

(***************************************************************************)
(* Time.  The code reads the clock only to stamp rows (new Date()) and to  *)
(* compare next_retry_at with it, so only differences to the current       *)
(* instant matter.  Every time-valued field holds its distance to the      *)
(* current instant in ms, a past instant being 0; the current instant is   *)
(* therefore 0 and the passing of time shifts every field (see Tick).      *)
(***************************************************************************)
now == 0
\* contacts known to the Store; the queue of a specification holds a job item for some of them
Items == 1..NItems
Jobs == {1, 2}
Procs == {1, 2}
Slots == {1, 2}
Domains == {"bar.test", "FastFail.test"}

\* job_items.job_id: item 2 belongs to job 2, the others to job 1
JobOf(i) == IF i = 2 THEN 2 ELSE 1

VARIABLES
    items,        \* Store: job_items rows
    jobs,         \* Store: jobs rows
    contacts,     \* Store: contacts rows (one per job item)
    enrichments,  \* Store: enrichments rows, keyed by contact (0 = a contact outside any job)
    scraped,      \* Store: scraped_data rows, keyed by domain ("" = no row)
    itemHasWebsite, \* schema: does a job_items row carry company_website
    procs,        \* controller processes deployed against the queue
    isRunning,    \* JobProcessor.isRunning, per process
    shouldStop,   \* JobProcessor.shouldStop, per process
    loop,         \* poll-loop instances: position and chunk-local state
    rec,          \* recoverStaleJobs() invocations, per process
    inflight,     \* fire-and-forget Store writes not yet executed
    budget,       \* environment: lifecycle calls made per boot at most, crashes at most
    calls,        \* lifecycle calls made by each process since it booted
    crashes,      \* number of process crashes so far
    hist,         \* history of observations the properties refer to
    race,         \* one Tier 1 race of fetchDigest: its attempts and its outcome
    call          \* the last call of a pure function (enrichmentService.ts, validateHtml):
                  \* argument and result

vars == <<items, jobs, contacts, enrichments, scraped, itemHasWebsite,
          procs, isRunning, shouldStop, loop, rec, inflight, budget, calls,
          crashes, hist, race, call>>

storeVars == <<items, jobs, contacts, enrichments, scraped>>
envVars == <<itemHasWebsite, procs, budget, race, call>>

\* everything but the Tier 1 race and the calls of enrichmentService.ts
pipelineVars == <<storeVars, itemHasWebsite, procs, budget, isRunning, shouldStop, loop,
                  rec, inflight, calls, crashes, hist>>

(***************************************************************************)
(* Values                                                                  *)
(***************************************************************************)
NoMsg == [prefix |-> "", err |-> ""]

NoEnrichment ==
    [status |-> "none", classification |-> "", confidence |-> 0, reasoning |-> NoMsg,
     cost |-> 0, page_html |-> "", processed_at |-> Null]

NoEntry == [classification |-> "", confidence |-> 0, reasoning |-> NoMsg]

NoResult ==
    [kind |-> "none", newStatus |-> "", success |-> FALSE, msg |-> NoMsg,
     classification |-> "", confidence |-> 0, cost |-> 0, digest |-> "",
     attempt_count |-> 0, next_retry_at |-> Null, at |-> Null]

NoRead == [job |-> 0, completed_items |-> 0, failed_items |-> 0]

IdleLoop ==
    [proc |-> 0, pc |-> "none", ids |-> {}, chunk |-> {},
     snap |-> [i \in Items |-> 0],
     domainCache |-> [d \in Domains |-> NoEntry],
     digestCache |-> [d \in Domains |-> ""],
     ipc |-> [i \in Items |-> "idle"],
     res |-> [i \in Items |-> NoResult],
     tallies |-> [j \in Jobs |-> [completed |-> 0, failed |-> 0]],
     dig |-> [i \in Items |-> ""],
     rows |-> <<>>,
     jobsLeft |-> {}, read |-> NoRead, wakeAt |-> 0,
     qS |-> <<>>, qA |-> <<>>,
     fetchCalled |-> {}, netCalled |-> {}, aiCalled |-> {},
     dnsCode |-> [i \in Items |-> ""]]

\* positions of a loop inside processNextChunk
InChunk == {"select", "update", "cacheE", "cacheD", "pipeline", "upContacts", "upEnrich",
            "jobRead", "jobWrite", "pstate"}

\* startup: the invocation was made before any start() of this boot
IdleRec == [pc |-> "idle", startup |-> FALSE]

NoCalls == [start |-> 0, again |-> 0, stop |-> 0, recover |-> 0, claim |-> 0, fault |-> 0]

NoHist == [started |-> {}]

\* no call of enrichmentService.ts made yet
NoCall == [fn |-> "", arg |-> <<>>, ret |-> <<>>]

\* scraperService.ts:39-45: the relays of PROXY_LIST; attempt 0 is the direct fetch
PROXY_LIST == 1..4

Attempts == {0} \cup PROXY_LIST

\* a response body: does it carry a block signature the target URL does not, and its length
NoHtml == [blocked |-> FALSE, len |-> 0]

\* no race under way
NoRace ==
    [pc |-> "none", https |-> TRUE, aborted |-> FALSE,
     att |-> [a \in Attempts |-> "none"],
     html |-> [a \in Attempts |-> NoHtml],
     raw_html |-> NoHtml, proxyName |-> Null,
     got |-> [a \in Attempts |-> ""],
     zenKey |-> FALSE, tier2 |-> "none", err |-> ""]

(***************************************************************************)
(* Initial state: a freshly enqueued queue (all job items pending with     *)
(* attempt_count 0) and freshly booted controller processes.               *)
(***************************************************************************)
InitContact(i) ==
    IF i = 1
      THEN [email |-> "bar.test", company_website |-> "bar.test", industry |-> ""]
    ELSE IF i = 2
      THEN [email |-> "FastFail.test", company_website |-> "", industry |-> ""]
    ELSE [email |-> "", company_website |-> "", industry |-> ""]

InitStoreWith(enqueued, jobStatus, people, known) ==
    /\ items = [i \in enqueued |->
                  [status |-> "pending", attempt_count |-> 0, next_retry_at |-> Null,
                   locked_at |-> Null, finished_at |-> Null, error_message |-> NoMsg]]
    /\ jobs = [j \in Jobs |->
                  [status |-> jobStatus,
                   completed_items |-> 0, failed_items |-> 0,
                   total_items |-> Cardinality({i \in enqueued : JobOf(i) = j})]]
    /\ contacts = [c \in {0} \cup Items |->
                  IF c = 0
                    THEN [email |-> "bar.test", company_website |-> "bar.test",
                          industry |-> "Legal Services"]
                    ELSE people[c]]
    /\ enrichments = known
    /\ scraped = [d \in Domains |-> ""]

\* the enrichment of contact 0, classified before the queue was filled
PriorEnrichment(prior) ==
    [status |-> "completed", classification |-> "Legal Services", confidence |-> prior,
     reasoning |-> [prefix |-> "", err |-> "prior reasoning"],
     cost |-> 3, page_html |-> "bar.test", processed_at |-> 0]

InitStoreOf(enqueued, prior, jobStatus, people) ==
    InitStoreWith(enqueued, jobStatus, people,
                  [c \in {0} \cup Items |-> IF c = 0 THEN PriorEnrichment(prior) ELSE NoEnrichment])

\* a second contact of the company of contact 0, classified otherwise
OtherContact(i) ==
    IF i = 3
      THEN [email |-> "bar.test", company_website |-> "bar.test", industry |-> "Accounting"]
      ELSE InitContact(i)

OtherEnrichment ==
    [status |-> "completed", classification |-> "Accounting", confidence |-> 8,
     reasoning |-> [prefix |-> "", err |-> "other reasoning"],
     cost |-> 3, page_html |-> "bar.test", processed_at |-> 0]

InitStore(enqueued, prior, jobStatus) ==
    InitStoreOf(enqueued, prior, jobStatus, [c \in Items |-> InitContact(c)])

\* contacts of one company: items 1 and 2 have the same domain
SharedContact(i) ==
    IF i \in {1, 2}
      THEN [email |-> "bar.test", company_website |-> "bar.test", industry |-> ""]
      ELSE InitContact(i)

InitEnv(np, b) ==
    /\ budget = b
    /\ calls = [p \in Procs |-> NoCalls]
    /\ itemHasWebsite \in BOOLEAN
    /\ procs = 1..np
    /\ isRunning = [p \in Procs |-> FALSE]
    /\ shouldStop = [p \in Procs |-> FALSE]
    /\ loop = [l \in Slots |-> IdleLoop]
    /\ rec = [p \in Procs |-> IdleRec]
    /\ inflight = {}
    /\ crashes = 0
    /\ hist = NoHist
    /\ race = NoRace
    /\ call = NoCall

\* one controller, started once, no crash: the pipeline on a queue of NItems items
Init ==
    /\ \E prior \in {6, 9} : InitStore(1..NItems, prior, "processing")
    /\ InitEnv(1, [start |-> 1, again |-> 0, stop |-> 0, recover |-> 0, crash |-> 0, claim |-> Null, fault |-> 0])

\* one controller that may crash and on which recoverStaleJobs() may be called at any time
InitRecovery ==
    /\ \E jobStatus \in {"processing", "completed"} : InitStore(1..RecoveryItems, 9, jobStatus)
    /\ InitEnv(1, [start |-> 1, again |-> 0, stop |-> 0, recover |-> RecoveryCalls, crash |-> RecoveryCrashes,
                   claim |-> Null, fault |-> 0])

\* one controller under any interleaving of start(), stop() and recoverStaleJobs()
InitControl ==
    /\ InitStore(1..ControlItems, 6, "processing")
    /\ InitEnv(1, [start |-> ControlStarts, again |-> ControlRestarts, stop |-> ControlStops,
                   recover |-> ControlRecovers, crash |-> 0, claim |-> Null, fault |-> 0])

\* one controller that is started and keeps running
InitLive ==
    /\ InitStore(1..LiveItems, 6, "processing")
    /\ InitEnv(1, [start |-> 1, again |-> 0, stop |-> 0, recover |-> 0, crash |-> 0,
                   claim |-> Null, fault |-> 0])

\* one controller that is started, stopped and started again
InitStop ==
    /\ InitStore(1..StopItems, 6, "processing")
    /\ InitEnv(1, [start |-> StopStarts, again |-> StopRestarts, stop |-> StopStops,
                   recover |-> 0, crash |-> 0, claim |-> Null, fault |-> 0])

\* two controllers polling the same queue
InitTwo ==
    /\ InitStore(1..TwoItems, 6, "processing")
    /\ InitEnv(2, [start |-> 1, again |-> 0, stop |-> 0, recover |-> 0, crash |-> 0, claim |-> TwoClaims,
                   fault |-> 0])

\* one controller in whose processNextChunk exceptions are thrown, and that may be stopped
InitFault ==
    /\ InitStore(1..FaultItems, 6, "processing")
    /\ InitEnv(1, [start |-> 1, again |-> 0, stop |-> 1, recover |-> 0, crash |-> 0,
                   claim |-> Null, fault |-> FaultThrows])

\* one fetchDigest call that has passed its DNS check
InitRace ==
    /\ InitStore(1..1, 6, "processing")
    /\ InitEnv(1, [start |-> 0, again |-> 0, stop |-> 0, recover |-> 0, crash |-> 0,
                   claim |-> Null, fault |-> 0])

\* no controller started: the functions of enrichmentService.ts are called
InitClassifier ==
    /\ InitStore(1..1, 6, "processing")
    /\ InitEnv(1, [start |-> 0, again |-> 0, stop |-> 0, recover |-> 0, crash |-> 0,
                   claim |-> Null, fault |-> 0])

\* one controller on a queue of two items of the same domain, of which the Store holds
\* neither a reusable classification nor a digest
InitShared ==
    /\ InitStoreOf(1..SharedItems, 6, "processing", [c \in Items |-> SharedContact(c)])
    /\ InitEnv(1, [start |-> 1, again |-> 0, stop |-> 0, recover |-> 0, crash |-> 0,
                   claim |-> Null, fault |-> 0])

\* one controller on a queue of one item of a domain for which the Store holds the
\* enrichments of two other contacts
InitCached ==
    /\ \E prior \in {6, 9} :
          InitStoreWith(1..CachedItems, "processing", [c \in Items |-> OtherContact(c)],
                        [c \in {0} \cup Items |->
                            IF c = 0 THEN PriorEnrichment(prior)
                            ELSE IF c = 3 THEN OtherEnrichment ELSE NoEnrichment])
    /\ InitEnv(1, [start |-> 1, again |-> 0, stop |-> 0, recover |-> 0, crash |-> 0,
                   claim |-> Null, fault |-> 0])

\* no controller started: validateHtml is called
InitValidate ==
    /\ InitStore(1..1, 6, "processing")
    /\ InitEnv(1, [start |-> 0, again |-> 0, stop |-> 0, recover |-> 0, crash |-> 0,
                   claim |-> Null, fault |-> 0])

\* no controller: processHtmlToDigest is called on its own
InitDigest ==
    /\ InitStore(1..1, 6, "processing")
    /\ InitEnv(1, [start |-> 0, again |-> 0, stop |-> 0, recover |-> 0, crash |-> 0,
                   claim |-> Null, fault |-> 0])

(***************************************************************************)
(* Store queries                                                           *)
(***************************************************************************)
\* jobProcessor.ts:109-110  .in('status', [...]).or('next_retry_at.is.null,next_retry_at.lte.now()')
IsDue_AnyStatus(row, t) == row.next_retry_at = Null \/ row.next_retry_at <= t

IsDue_PendingOnly(row, t) == row.status = "pending"

IsDue_IgnoreBackoff(row, t) == row.status \in {"pending", "retrying"}

IsDue(row, t) ==
    /\ row.status \in {"pending", "retrying"}
    /\ (row.next_retry_at = Null \/ row.next_retry_at <= t)

DueItems == {i \in DOMAIN items : IsDue(items[i], now)}

Min(a, b) == IF a <= b THEN a ELSE b

\* .limit(QUEUE_FETCH_CHUNK_SIZE) with no ORDER BY: any subset of that size
Selections == {S \in SUBSET DueItems : Cardinality(S) = Min(QUEUE_FETCH_CHUNK_SIZE, Cardinality(DueItems))}

\* jobItem.company_website of a claimed row ('*, contacts(*)')
ItemWebsite(i) == IF itemHasWebsite THEN contacts[i].company_website ELSE ""

\* jobProcessor.ts:172
DomainOf(i) == IF ItemWebsite(i) # "" THEN ItemWebsite(i) ELSE contacts[i].email

\* jobProcessor.ts:138
UniqueDomains(chunk) == {ItemWebsite(i) : i \in chunk} \ {""}

CachedRows_AnyConfidence(d) ==
    {c \in DOMAIN enrichments :
        /\ enrichments[c].status = "completed"
        /\ contacts[c].company_website = d}

\* jobProcessor.ts:144-149: enrichments rows usable as a cache entry for domain d
CachedRows(d) ==
    {c \in DOMAIN enrichments :
        /\ enrichments[c].status = "completed"
        /\ enrichments[c].confidence >= CACHE_MIN_CONFIDENCE
        /\ contacts[c].company_website = d}

(***************************************************************************)
(* JobProcessor.start / stop / pollLoop                                    *)
(***************************************************************************)
AlreadyRunning_Never(p) == FALSE

\* jobProcessor.ts:31
AlreadyRunning(p) == isRunning[p]

FreeSlots == {l \in Slots : loop[l].pc = "none"}

LoopsOf(p) == {l \in Slots : loop[l].pc # "none" /\ loop[l].proc = p}

\* jobProcessor.ts:30-37; pollLoop() runs synchronously up to its first await
Start(p) ==
    /\ p \in procs
    /\ IF AlreadyRunning(p)
         THEN UNCHANGED <<isRunning, shouldStop, loop>>
         ELSE /\ FreeSlots # {}
              /\ LET l == CHOOSE x \in FreeSlots : \A y \in FreeSlots : x <= y
                 IN  loop' = [loop EXCEPT ![l] = [IdleLoop EXCEPT !.proc = p, !.pc = "select"]]
              /\ isRunning' = [isRunning EXCEPT ![p] = TRUE]
              /\ shouldStop' = [shouldStop EXCEPT ![p] = FALSE]
    /\ hist' = [hist EXCEPT !.started = hist.started \cup {p}]

\* the surrounding application calls start(); the calls that find the controller running
\* are counted apart from those that find it stopped
StartCall(p) ==
    /\ IF isRunning[p] THEN calls[p].again < budget.again ELSE calls[p].start < budget.start
    /\ calls' = IF isRunning[p] THEN [calls EXCEPT ![p].again = @ + 1]
                               ELSE [calls EXCEPT ![p].start = @ + 1]
    /\ Start(p)
    /\ UNCHANGED <<storeVars, envVars, rec, inflight, crashes>>

\* jobProcessor.ts:42-45
Stop(p) ==
    /\ p \in procs
    /\ shouldStop[p] \/ calls[p].stop < budget.stop
    /\ calls' = [calls EXCEPT ![p].stop = IF shouldStop[p] THEN @ ELSE @ + 1]
    /\ shouldStop' = [shouldStop EXCEPT ![p] = TRUE]
    /\ UNCHANGED <<storeVars, envVars, isRunning, loop, rec, inflight, crashes, hist>>

LoopContinues_Always(p) == TRUE

\* jobProcessor.ts:78  while (!this.shouldStop)
LoopContinues(p) == ~shouldStop[p]

\* jobProcessor.ts:78, 84-89, 100: a timer fires and the while condition is evaluated
Wake(l) ==
    /\ loop[l].pc \in {"sleep", "yield"}
    /\ loop[l].wakeAt <= now
    /\ IF ~LoopContinues(loop[l].proc)
         THEN /\ loop' = [loop EXCEPT ![l] = IdleLoop]
              /\ isRunning' = [isRunning EXCEPT ![loop[l].proc] = FALSE]
         ELSE /\ loop' = [loop EXCEPT ![l].pc = "select"]
              /\ UNCHANGED isRunning
    /\ UNCHANGED <<storeVars, envVars, shouldStop, rec, inflight, calls, crashes, hist>>

(***************************************************************************)
(* processNextChunk: claim                                                 *)
(***************************************************************************)
\* jobProcessor.ts:106-119
Select(l) ==
    /\ loop[l].pc = "select"
    /\ \E S \in Selections :
          IF S = {}
            THEN loop' = [loop EXCEPT ![l].pc = "sleep", ![l].ids = {},
                                      ![l].wakeAt = now + POLL_INTERVAL_MS]
            ELSE loop' = [loop EXCEPT ![l].pc = "update", ![l].ids = S]
    /\ UNCHANGED <<storeVars, envVars, isRunning, shouldStop, rec, inflight, calls, crashes, hist>>

\* jobProcessor.ts:124-128: the row written by the claim
ClaimRow(row) == [row EXCEPT !.status = "processing", !.locked_at = now]

\* jobProcessor.ts:128  .in('id', ids): rows the claim's update matches
ClaimMatches(ids) == ids

(***************************************************************************)
(* Helpers createResult / createRetry                                      *)
(***************************************************************************)
Msg(prefix, err) == [prefix |-> prefix, err |-> err]

NextRetryMs_Linear(attempt_count) == (attempt_count + 1) * RETRY_BASE_MS

\* jobProcessor.ts:335
NextRetryMs(attempt_count) == (2 ^ attempt_count) * RETRY_BASE_MS

\* jobProcessor.ts:343
NextAttempt(attempt_count) == attempt_count + 1

CreateResult_NoDefault(isSuccess, status, msg, data, digest, cost) ==
    [kind |-> "result", newStatus |-> status, success |-> isSuccess, msg |-> msg,
     classification |-> IF data.classification # "" THEN data.classification
                        ELSE IF isSuccess THEN "Unknown" ELSE "Scrape Error",
     confidence |-> data.confidence,
     cost |-> cost, digest |-> digest,
     attempt_count |-> 0, next_retry_at |-> Null, at |-> now]

\* jobProcessor.ts:298-331; data = NoEntry stands for an absent classificationData
CreateResult(isSuccess, status, msg, data, digest, cost) ==
    [kind |-> "result", newStatus |-> status, success |-> isSuccess, msg |-> msg,
     classification |-> IF data.classification # "" THEN data.classification
                        ELSE IF isSuccess THEN "Unknown" ELSE "Scrape Error",
     confidence |-> IF data.confidence # 0 THEN data.confidence ELSE 1,
     cost |-> cost, digest |-> digest,
     attempt_count |-> 0, next_retry_at |-> Null, at |-> now]

\* jobProcessor.ts:333-352
CreateRetry(attempt_count, msg) ==
    [kind |-> "retry", newStatus |-> "retrying", success |-> FALSE, msg |-> msg,
     classification |-> "", confidence |-> 0, cost |-> 0, digest |-> "",
     attempt_count |-> NextAttempt(attempt_count),
     next_retry_at |-> now + NextRetryMs(attempt_count), at |-> Null]

MayRetry_Inclusive(attempt_count) == attempt_count <= MAX_RETRIES

\* jobProcessor.ts:204, 226, 232
MayRetry(attempt_count) == attempt_count < MAX_RETRIES

\* scraperService.ts:90
FastFailError(code) ==
    IF code = "ENOTFOUND" THEN "FastFail: Domain completely unreachable (ENOTFOUND)"
    ELSE IF code = "ENODATA" THEN "FastFail: Domain completely unreachable (ENODATA)"
    ELSE "FastFail: Domain completely unreachable"

\* scraperService.ts:60-67 normalizeUrl and 181: the message carries the URL of the call
BulletproofError(d) ==
    IF d = "bar.test" THEN "Bulletproof scraping failed for https://bar.test"
    ELSE "Bulletproof scraping failed for https://FastFail.test"

\* the messages of fetchDigest in which the text 'FastFail' occurs
WithFastFail ==
    {FastFailError(code) : code \in {"ENOTFOUND", "ENODATA", ""}} \cup
    {BulletproofError(d) : d \in {"FastFail.test"}}

\* jobProcessor.ts:202  e.message.includes('FastFail')
IsTerminal(err) == err \in WithFastFail

\* jobProcessor.ts:198-209: the catch block around fetchDigest
ScrapeFailure(attempt_count, err) ==
    IF ~IsTerminal(err) /\ MayRetry(attempt_count)
      THEN CreateRetry(attempt_count, Msg("Scraper error", err))
      ELSE CreateResult(FALSE, "failed", Msg("Scrape terminal error", err), NoEntry, "", 0)

\* jobProcessor.ts:221-230
AiOutcome(attempt_count, out, digest) ==
    IF out.status = "completed" /\ out.classification # "ERROR"
      THEN CreateResult(TRUE, "completed", out.reasoning,
                        [classification |-> out.classification, confidence |-> out.confidence,
                         reasoning |-> out.reasoning],
                        digest, out.cost)
      ELSE IF MayRetry(attempt_count)
             THEN CreateRetry(attempt_count, Msg("AI error", out.reasoning.err))
             ELSE CreateResult(FALSE, "failed", Msg("AI terminal error", out.reasoning.err),
                               NoEntry, "", 0)

\* jobProcessor.ts:231-236: the catch block around enrichSingle
AiException(attempt_count, err) ==
    IF MayRetry(attempt_count)
      THEN CreateRetry(attempt_count, Msg("AI exception", err))
      ELSE CreateResult(FALSE, "failed", Msg("AI terminal exception", err), NoEntry, "", 0)

(***************************************************************************)
(* Concurrency limiters (p-limit): a queued call starts as soon as fewer   *)
(* than `concurrency` calls are active, in FIFO order.                     *)
(***************************************************************************)
RECURSIVE Ascending(_)
Ascending(S) ==
    IF S = {} THEN <<>>
    ELSE LET m == CHOOSE x \in S : \A y \in S : x <= y
         IN  <<m>> \o Ascending(S \ {m})

ScrapeActive(lp) == Cardinality({i \in Items : lp.ipc[i] = "fetch"})
AiActive(lp) == Cardinality({i \in Items : lp.ipc[i] = "ai"})

PumpScrape_Unbounded(lp) ==
    [lp EXCEPT !.ipc = [i \in Items |-> IF lp.ipc[i] = "qScrape" THEN "fetch" ELSE lp.ipc[i]],
               !.qS = <<>>,
               !.fetchCalled = lp.fetchCalled \cup {i \in Items : lp.ipc[i] = "qScrape"}]

\* jobProcessor.ts:20, 190: scrapeLimit(() => fetchDigest(domain, undefined))
PumpScrape(lp) ==
    LET n == Min(CONCURRENCY_SCRAPE - ScrapeActive(lp), Len(lp.qS))
        started == {lp.qS[k] : k \in 1..n}
    IN  [lp EXCEPT !.ipc = [i \in Items |-> IF i \in started THEN "fetch" ELSE lp.ipc[i]],
                   !.qS = SubSeq(lp.qS, n + 1, Len(lp.qS)),
                   !.fetchCalled = lp.fetchCalled \cup started]

\* jobProcessor.ts:21, 215: aiLimit(() => enrichSingle({...}))
PumpAi(lp) ==
    LET n == Min(CONCURRENCY_AI - AiActive(lp), Len(lp.qA))
        started == {lp.qA[k] : k \in 1..n}
    IN  [lp EXCEPT !.ipc = [i \in Items |-> IF i \in started THEN "ai" ELSE lp.ipc[i]],
                   !.qA = SubSeq(lp.qA, n + 1, Len(lp.qA)),
                   !.aiCalled = lp.aiCalled \cup started]

Pump(lp) == PumpAi(PumpScrape(lp))

(***************************************************************************)
(* processNextChunk: chunk-local caches and the synchronous head of the    *)
(* per-item pipeline                                                       *)
(***************************************************************************)
\* jobProcessor.ts:179
CacheHit(lp, d) == lp.domainCache[d] # NoEntry

\* jobProcessor.ts:171-187: first stage of an item, up to its first await
FirstStage(lp, i) ==
    IF DomainOf(i) = "" THEN "done"
    ELSE IF CacheHit(lp, DomainOf(i)) THEN "done"
    ELSE IF lp.digestCache[DomainOf(i)] # "" THEN "qAI"
    ELSE "qScrape"

FirstResult(lp, i) ==
    IF DomainOf(i) = ""
      THEN CreateResult(FALSE, "failed",
                        Msg("", "No domain or email to extract domain from."), NoEntry, "", 0)
    ELSE IF CacheHit(lp, DomainOf(i))
      THEN CreateResult(TRUE, "completed",
                        Msg("", "Reused high-confidence classification"),
                        lp.domainCache[DomainOf(i)], "", 0)
    ELSE NoResult

\* jobProcessor.ts:170: claimedItems.map(async ...) runs every callback to its first await
PipelineHead(lp) ==
    [lp EXCEPT !.pc = "pipeline",
               !.qS = Ascending({i \in lp.chunk : FirstStage(lp, i) = "qScrape"}),
               !.qA = Ascending({i \in lp.chunk : FirstStage(lp, i) = "qAI"}),
               !.ipc = [i \in Items |-> IF i \in lp.chunk THEN FirstStage(lp, i) ELSE "idle"],
               !.res = [i \in Items |-> IF i \in lp.chunk THEN FirstResult(lp, i) ELSE NoResult],
               !.dig = [i \in Items |->
                          IF i \in lp.chunk /\ FirstStage(lp, i) = "qAI"
                            THEN lp.digestCache[DomainOf(i)] ELSE ""]]

PipelineStart(lp) == Pump(PipelineHead(lp))

\* the observation ends at the claim that would exceed the number of chunks observed
ClaimObserved(p) == budget.claim = Null \/ calls[p].claim < budget.claim

\* jobProcessor.ts:122, 131: the Store may answer the claim with an error where faults occur
LockErrors == IF budget.fault > 0 THEN BOOLEAN ELSE {FALSE}

ClaimWrites_DespiteError(ids, lockError) == ClaimMatches(ids)

\* jobProcessor.ts:122-129: rows the claim's update writes; a rejected update writes none
ClaimWrites(ids, lockError) == IF lockError THEN {} ELSE ClaimMatches(ids)

\* jobProcessor.ts:122, 131: claimedItems, the rows the Store returns (none with an error)
ClaimedItems(ids, lockError) == IF lockError THEN {} ELSE ClaimMatches(ids)

\* jobProcessor.ts:122-142
Update(l) ==
    /\ loop[l].pc = "update"
    /\ ClaimObserved(loop[l].proc)
    /\ calls' = [calls EXCEPT ![loop[l].proc].claim = IF budget.claim = Null THEN @ ELSE @ + 1]
    /\ \E lockError \in LockErrors :
       LET claimed == ClaimedItems(loop[l].ids, lockError)
           written == ClaimWrites(loop[l].ids, lockError)
           lp == [IdleLoop EXCEPT !.proc = loop[l].proc, !.ids = loop[l].ids,
                                  !.chunk = claimed,
                                  !.snap = [i \in Items |-> IF i \in claimed
                                                              THEN items[i].attempt_count ELSE 0]]
       IN  /\ items' = [i \in DOMAIN items |-> IF i \in written THEN ClaimRow(items[i]) ELSE items[i]]
           /\ loop' = [loop EXCEPT ![l] =
                         IF claimed = {}
                           THEN [lp EXCEPT !.pc = "sleep", !.wakeAt = now + POLL_INTERVAL_MS]
                         ELSE IF UniqueDomains(claimed) # {}
                           THEN [lp EXCEPT !.pc = "cacheE"]
                         ELSE PipelineStart(lp)]
    /\ UNCHANGED <<jobs, contacts, enrichments, scraped, envVars, isRunning, shouldStop,
                   rec, inflight, crashes, hist>>

\* jobProcessor.ts:143-148: the rows the query returns
QueryRows(chunk) == {c \in DOMAIN enrichments : \E d \in UniqueDomains(chunk) : c \in CachedRows(d)}

\* the orders in which the Store may return a set of rows (the query has no ORDER BY)
Orders(S) == {s \in [1..Cardinality(S) -> S] : \A a, b \in 1..Cardinality(S) : s[a] = s[b] => a = b}

\* the columns of a row that the cache holds
EntryOf(c) ==
    [classification |-> enrichments[c].classification,
     confidence |-> enrichments[c].confidence,
     reasoning |-> enrichments[c].reasoning]

\* jobProcessor.ts:150-155: forEach assigns domainCache[w] = row for every row in turn
RECURSIVE BuildDomainCache(_, _)
BuildDomainCache(cache, cachedEnrichments) ==
    IF cachedEnrichments = <<>> THEN cache
    ELSE LET row == Head(cachedEnrichments)
             w == contacts[row].company_website
         IN  BuildDomainCache(IF w # "" THEN [cache EXCEPT ![w] = EntryOf(row)] ELSE cache,
                              Tail(cachedEnrichments))

\* jobProcessor.ts:143-156
CacheEnrich(l) ==
    /\ loop[l].pc = "cacheE"
    /\ \E cachedEnrichments \in Orders(QueryRows(loop[l].chunk)) :
          loop' = [loop EXCEPT ![l].pc = "cacheD",
                               ![l].rows = cachedEnrichments,
                               ![l].domainCache =
                                  BuildDomainCache([d \in Domains |-> NoEntry], cachedEnrichments)]
    /\ UNCHANGED <<storeVars, envVars, isRunning, shouldStop, rec, inflight, calls, crashes, hist>>

\* jobProcessor.ts:159-170
CacheDigest(l) ==
    /\ loop[l].pc = "cacheD"
    /\ LET lp == [loop[l] EXCEPT !.rows = <<>>,
                                 !.digestCache = [d \in Domains |->
                      IF d \in UniqueDomains(loop[l].chunk) THEN scraped[d] ELSE ""]]
       IN  loop' = [loop EXCEPT ![l] = PipelineStart(lp)]
    /\ UNCHANGED <<storeVars, envVars, isRunning, shouldStop, rec, inflight, calls, crashes, hist>>

(***************************************************************************)
(* fetchDigest (scraperService.ts).  Its inputs from the outside world are *)
(* the answer of the resolver, whether some Tier 1 attempt returns valid   *)
(* content, whether VITE_ZENROWS_API_KEY is set when the call reads it,    *)
(* and whether the premium provider returns valid content.                 *)
(***************************************************************************)
DnsOutcomes == {"OK", "ENOTFOUND", "ENODATA", "ESERVFAIL"}

DnsFastFail_AnyError(code) == code # "OK"

\* scraperService.ts:85
DnsFastFail(code) == code \in {"ENOTFOUND", "ENODATA"}

\* scraperService.ts:362-392 processHtmlToDigest: the page of a domain, digested
DigestOf(d) == d

\* scraperService.ts:69-182: what a call returns or throws, and the network requests it made
FetchDigest(d, code, tier1Won, zenKey, tier2Ok) ==
    IF DnsFastFail(code)
      THEN [ok |-> FALSE, digest |-> "", err |-> FastFailError(code), tier1 |-> FALSE,
            tier2 |-> FALSE]
    ELSE IF tier1Won
      THEN [ok |-> TRUE, digest |-> DigestOf(d), err |-> "", tier1 |-> TRUE, tier2 |-> FALSE]
    ELSE IF zenKey /\ tier2Ok
      THEN [ok |-> TRUE, digest |-> DigestOf(d), err |-> "", tier1 |-> TRUE, tier2 |-> TRUE]
    ELSE [ok |-> FALSE, digest |-> "", err |-> BulletproofError(d), tier1 |-> TRUE, tier2 |-> zenKey]

\* jobProcessor.ts:198-209: fetchDigest threw err for item i
FetchThrows(lp, i, err) ==
    Pump([lp EXCEPT !.ipc[i] = "done", !.res[i] = ScrapeFailure(lp.snap[i], err)])

\* jobProcessor.ts:191-197, 212-215: fetchDigest returned a digest for item i
FetchReturns(lp, i, digest) ==
    Pump([lp EXCEPT !.ipc[i] = "qAI", !.dig[i] = digest,
                    !.digestCache[DomainOf(i)] = digest,
                    !.qA = Append(lp.qA, i)])

\* jobProcessor.ts:188-209: the awaited fetchDigest call of item i settles
Fetch(l, i) ==
    /\ loop[l].pc = "pipeline"
    /\ loop[l].ipc[i] = "fetch"
    /\ \E code \in DnsOutcomes, tier1Won \in BOOLEAN, zenKey \in BOOLEAN, tier2Ok \in BOOLEAN :
          LET r == FetchDigest(DomainOf(i), code, tier1Won, zenKey, tier2Ok)
              lp == [loop[l] EXCEPT !.netCalled = IF r.tier1 THEN @ \cup {i} ELSE @,
                                    !.dnsCode[i] = code]
          IN  IF r.ok
                THEN /\ loop' = [loop EXCEPT ![l] = FetchReturns(lp, i, r.digest)]
                     /\ inflight' = inflight \cup
                            {[proc |-> loop[l].proc, domain |-> DomainOf(i), content |-> r.digest]}
                ELSE /\ loop' = [loop EXCEPT ![l] = FetchThrows(lp, i, r.err)]
                     /\ UNCHANGED inflight
    /\ UNCHANGED <<storeVars, envVars, isRunning, shouldStop, rec, calls, crashes, hist>>

\* jobProcessor.ts:195: the fire-and-forget scraped_data upsert reaches the Store
PersistDigest(w) ==
    /\ w \in inflight
    /\ scraped' = [scraped EXCEPT ![w.domain] = w.content]
    /\ inflight' = inflight \ {w}
    /\ UNCHANGED <<items, jobs, contacts, enrichments, envVars, isRunning, shouldStop,
                   loop, rec, calls, crashes, hist>>

(***************************************************************************)
(* fetchDigest, Tier 1: the race of the direct fetch and the relay         *)
(* fetches.  An attempt is a request in flight until its response (or its  *)
(* failure) arrives; what follows a response runs without interruption up  *)
(* to the continuation of fetchDigest behind Promise.any.                  *)
(***************************************************************************)
MIN_HTML_LENGTH == 200

\* what a request can come back with: a network error or a timeout of the attempt's own
\* controller, a status that is not ok, or a body
Responses ==
    {[kind |-> "error", html |-> NoHtml], [kind |-> "notOk", html |-> NoHtml]} \cup
    {[kind |-> "ok", html |-> [blocked |-> b, len |-> n]] :
        b \in BOOLEAN, n \in {0, MIN_HTML_LENGTH - 1, MIN_HTML_LENGTH}}

\* scraperService.ts:345-360: does validateHtml return without throwing
ValidateHtml(html) == ~html.blocked /\ html.len >= MIN_HTML_LENGTH

InFlight == {"fetch", "httpRetry"}

\* scraperService.ts:94-121: the attempts are started, each bound to raceController.signal
StartRace ==
    /\ race.pc = "none"
    /\ \E https \in BOOLEAN, zenKey \in BOOLEAN :
          race' = [NoRace EXCEPT !.pc = "racing", !.https = https, !.zenKey = zenKey,
                                 !.att = [a \in Attempts |-> "fetch"]]
    /\ UNCHANGED <<pipelineVars, call>>

\* scraperService.ts:223-228: the direct fetch of an https URL answers a status that is
\* not ok by calling attemptDirectFetch(http URL, timeoutMs), without the parent signal
HttpFallback(a, stage, https, resp) ==
    a = 0 /\ stage = "fetch" /\ https /\ resp.kind = "notOk"

\* scraperService.ts:201-242 and 262-296: the state of an attempt after its response
AttemptOutcome(a, stage, https, resp) ==
    IF resp.kind = "ok" /\ ValidateHtml(resp.html) THEN "fulfilled"
    ELSE IF HttpFallback(a, stage, https, resp) THEN "httpRetry"
    ELSE "rejected"

\* scraperService.ts:188-199: the requests raceController.abort() cancels are those whose
\* attempt registered onParentAbort on the signal
Cancelled(att) == [a \in Attempts |-> IF att[a] = "fetch" THEN "cancelled" ELSE att[a]]

Tier1Failed_AnyRejected(att) == \E b \in Attempts : att[b] = "rejected"

\* scraperService.ts:127, 134: Promise.any rejects once every race promise has rejected
Tier1Failed(att) == \A b \in Attempts : att[b] = "rejected"

\* the name under which the premium provider's content is returned (scraperService.ts:149)
ZenRows == Cardinality(Attempts)

\* scraperService.ts:141-181: after the race has failed, the ZenRows request is made when
\* a key is configured; without one the call throws
Phase2(r) ==
    IF r.zenKey THEN [r EXCEPT !.pc = "phase2", !.tier2 = "fetch"]
    ELSE [r EXCEPT !.pc = "thrown", !.err = BulletproofError("bar.test")]

\* scraperService.ts:127-139: the race after attempt a has settled
AfterSettle(r, a, resp) ==
    IF r.pc # "racing" THEN r
    ELSE IF r.att[a] = "fulfilled"
      THEN [r EXCEPT !.pc = "returned", !.aborted = TRUE, !.raw_html = resp.html,
                     !.proxyName = a, !.att = Cancelled(r.att)]
    ELSE IF Tier1Failed(r.att)
      THEN Phase2(r)
    ELSE r

\* the request of attempt a comes back
Respond(a) ==
    /\ race.att[a] \in InFlight
    /\ \E resp \in Responses :
          LET out == AttemptOutcome(a, race.att[a], race.https, resp)
              r == [race EXCEPT !.att[a] = out, !.got[a] = resp.kind,
                                !.html[a] = IF out = "fulfilled" THEN resp.html ELSE @]
          IN  race' = AfterSettle(r, a, resp)
    /\ UNCHANGED <<pipelineVars, call>>

\* scraperService.ts:146-160, 181 and 299-318: the ZenRows request comes back
ZenRowsRespond ==
    /\ race.pc = "phase2"
    /\ race.tier2 = "fetch"
    /\ \E resp \in Responses :
          race' = IF resp.kind = "ok" /\ ValidateHtml(resp.html)
                    THEN [race EXCEPT !.pc = "returned", !.tier2 = "fulfilled",
                                      !.raw_html = resp.html, !.proxyName = ZenRows]
                    ELSE [race EXCEPT !.pc = "thrown", !.tier2 = "rejected",
                                      !.err = BulletproofError("bar.test")]
    /\ UNCHANGED <<pipelineVars, call>>

(***************************************************************************)
(* enrichmentService.ts: normalizeConfidence and enrichSingle as functions *)
(* of their inputs.  A number is held in hundredths; what a model answers  *)
(* for "confidence" is null, absent, a number, a string that parseFloat    *)
(* reads as a number, a string it does not, or Infinity.                   *)
(***************************************************************************)
Scale == 100

Num(v) == [kind |-> "number", v |-> v]

ConfidenceInputs ==
    {[kind |-> k, v |-> 0] : k \in {"null", "undefined", "text"}} \cup
    {[kind |-> "infinity", v |-> s] : s \in {-1, 1}} \cup
    {[kind |-> "string", v |-> v] : v \in {80, 700, 10000}} \cup
    {Num(v) : v \in -MaxBelowZero..MaxConfidence}

\* Math.round(p / q) for q > 0: the integer nearest to p / q, halves upwards
Round(p, q) == (2 * p + q) \div (2 * q)

Clamp_None(n) == n

\* enrichmentService.ts:33-35
Clamp(n) == IF n < 1 THEN 1 ELSE IF n > 10 THEN 10 ELSE n

\* enrichmentService.ts:22-38
NormalizeConfidence(val) ==
    IF val.kind \in {"null", "undefined"} THEN 5
    ELSE IF val.kind = "text" THEN 5
    ELSE IF val.kind = "infinity" THEN (IF val.v > 0 THEN 10 ELSE 1)
    ELSE IF val.v > 0 /\ val.v <= 1 * Scale THEN Clamp(Round(val.v * 10, Scale))
    ELSE IF val.v > 10 * Scale THEN Clamp(Round(val.v, Scale * 10))
    ELSE Clamp(Round(val.v, Scale))

\* what the request to the OpenAI responses API comes back with
NoParsed == [classification |-> "", confidence |-> [kind |-> "undefined", v |-> 0],
             reasoning |-> ""]

ApiResponses ==
    {[kind |-> k, output_text |-> "none", parsed |-> NoParsed, input_tokens |-> 0,
      output_tokens |-> 0] : k \in {"rejected", "notOk", "notJson"}} \cup
    {[kind |-> "ok", output_text |-> t, parsed |-> NoParsed, input_tokens |-> 1000,
      output_tokens |-> 0] : t \in {"none", "empty", "notJson", "null"}} \cup
    {[kind |-> "ok", output_text |-> "object",
      parsed |-> [classification |-> c, confidence |-> conf, reasoning |-> r],
      input_tokens |-> tin, output_tokens |-> tout] :
        c \in {"", "Software", "ERROR"},
        conf \in {[kind |-> "undefined", v |-> 0], [kind |-> "text", v |-> 0],
                  [kind |-> "string", v |-> 700], Num(0), Num(80), Num(849), Num(10000)},
        r \in {"", "model reasoning"},
        tin \in {0, 1234}, tout \in {0, 311}}

\* enrichmentService.ts:8-9, 95-98: the cost in millionths of a dollar, 0.80 and 3.20
\* dollars per million tokens, rounded by toFixed(6)
EstimatedCost(input_tokens, output_tokens) == Round(80 * input_tokens + 320 * output_tokens, Scale)

\* the exception raised in the try block of enrichSingle, "" if none
EnrichError(resp) ==
    IF resp.kind = "rejected" THEN "fetch failed"
    ELSE IF resp.kind = "notOk" THEN "OpenAI API Error: 500"
    ELSE IF resp.kind = "notJson" THEN "Unexpected token in JSON"
    ELSE IF resp.output_text \in {"none", "empty"} THEN "No model output returned."
    ELSE IF resp.output_text = "notJson" THEN "Unexpected token in JSON"
    ELSE IF resp.output_text = "null" THEN "Cannot read properties of null"
    ELSE ""

Failed_Rethrow(message) ==
    [threw |-> TRUE, classification |-> "", confidence |-> 0, reasoning |-> message,
     cost |-> 0, status |-> ""]

\* enrichmentService.ts:111-124: the catch block
Failed(message) ==
    [threw |-> FALSE, classification |-> "ERROR", confidence |-> 1, reasoning |-> message,
     cost |-> 0, status |-> "failed"]

\* enrichmentService.ts:43-125
EnrichSingle(resp) ==
    IF EnrichError(resp) # "" THEN Failed(EnrichError(resp))
    ELSE [threw |-> FALSE,
          classification |-> IF resp.parsed.classification # ""
                               THEN resp.parsed.classification ELSE "Unknown",
          confidence |-> NormalizeConfidence(resp.parsed.confidence),
          reasoning |-> IF resp.parsed.reasoning # ""
                          THEN resp.parsed.reasoning ELSE "No reasoning provided.",
          cost |-> EstimatedCost(resp.input_tokens, resp.output_tokens),
          status |-> "completed"]

\* normalizeConfidence(val) is called
NormalizeConfidenceCall ==
    /\ call = NoCall
    /\ \E val \in ConfidenceInputs :
          call' = [fn |-> "normalizeConfidence", arg |-> val, ret |-> NormalizeConfidence(val)]
    /\ UNCHANGED <<pipelineVars, race>>

\* enrichSingle(item) is called and the request comes back
EnrichSingleCall ==
    /\ call = NoCall
    /\ \E resp \in ApiResponses :
          call' = [fn |-> "enrichSingle", arg |-> resp, ret |-> EnrichSingle(resp)]
    /\ UNCHANGED <<pipelineVars, race>>

(***************************************************************************)
(* validateHtml (scraperService.ts).  A text is a sequence of pieces; a    *)
(* signature never straddles two pieces.                                   *)
(***************************************************************************)
MaxPieces == 3     \* pieces of a fetched body

\* scraperService.ts:347-352
proxySignatures ==
    <<"cloudflare-error", "px-captcha", "captcha-delivery.com",
      "access denied", "checking your browser", "unusual traffic",
      "corsfix_error", "zenrows.com/error", "scrapingbee.com/error",
      "attention required! | cloudflare", "sorry, you have been blocked">>

\* the pieces bodies and URLs are made of: text, its length, is it white space
Blank == [text |-> " ", len |-> 100, space |-> TRUE]
BodyPieces ==
    {[text |-> "Access Denied", len |-> 13, space |-> FALSE],
     [text |-> "access denied", len |-> 13, space |-> FALSE],
     [text |-> "PX-Captcha", len |-> 10, space |-> FALSE],
     [text |-> "lorem ipsum", len |-> 100, space |-> FALSE],
     [text |-> "dolor sit", len |-> 99, space |-> FALSE],
     Blank}

RECURSIVE SeqsUpTo(_, _)
SeqsUpTo(S, n) ==
    IF n = 0 THEN {<<>>}
    ELSE SeqsUpTo(S, n - 1) \cup {Append(s, x) : s \in {t \in SeqsUpTo(S, n - 1) : Len(t) = n - 1}, x \in S}

Bodies == SeqsUpTo(BodyPieces, MaxPieces)

TargetUrls ==
    {<<[text |-> "https://", len |-> 8, space |-> FALSE], [text |-> "bar.test", len |-> 8, space |-> FALSE]>>,
     <<[text |-> "https://", len |-> 8, space |-> FALSE], [text |-> "PX-Captcha", len |-> 10, space |-> FALSE],
       [text |-> ".test", len |-> 5, space |-> FALSE]>>,
     <<[text |-> "https://", len |-> 8, space |-> FALSE], [text |-> "bar.test/", len |-> 9, space |-> FALSE],
       [text |-> "access denied", len |-> 13, space |-> FALSE]>>}

\* String.prototype.toLowerCase on a piece
LowerText(t) ==
    IF t = "Access Denied" THEN "access denied"
    ELSE IF t = "PX-Captcha" THEN "px-captcha"
    ELSE IF t = "HTTPS://" THEN "https://"
    ELSE t

\* scraperService.ts:346  (html || "").toLowerCase()
ToLowerCase(s) == [k \in 1..Len(s) |-> [s[k] EXCEPT !.text = LowerText(s[k].text)]]

\* String.prototype.includes for a signature
Includes(s, sig) == \E k \in 1..Len(s) : s[k].text = sig

\* String.prototype.trim followed by .length
RECURSIVE Length(_)
Length(s) == IF s = <<>> THEN 0 ELSE Head(s).len + Length(Tail(s))

RECURSIVE TrimStart(_)
TrimStart(s) == IF s # <<>> /\ Head(s).space THEN TrimStart(Tail(s)) ELSE s

RECURSIVE TrimEnd(_)
TrimEnd(s) == IF s # <<>> /\ s[Len(s)].space THEN TrimEnd(SubSeq(s, 1, Len(s) - 1)) ELSE s

Trim(s) == TrimEnd(TrimStart(s))

MatchedSignatures_AnyUrl(html, targetUrl) ==
    {k \in 1..Len(proxySignatures) : Includes(ToLowerCase(html), proxySignatures[k])}

\* scraperService.ts:354-356: the signatures the predicate of find() holds for
MatchedSignatures(html, targetUrl) ==
    {k \in 1..Len(proxySignatures) :
        /\ Includes(ToLowerCase(html), proxySignatures[k])
        /\ ~Includes(ToLowerCase(targetUrl), proxySignatures[k])}

NoThrow == Msg("", "")

\* scraperService.ts:345-360: the error validateHtml throws, NoThrow when it returns
ValidateHtmlThrows(html, targetUrl) ==
    LET matched == MatchedSignatures(html, targetUrl)
    IN  IF matched # {}
          THEN Msg("Blocked by proxy", proxySignatures[CHOOSE k \in matched : \A m \in matched : k <= m])
        ELSE IF html = <<>> \/ Length(Trim(html)) < MIN_HTML_LENGTH
          THEN Msg("", "Insufficient content length")
        ELSE NoThrow

\* validateHtml(html, targetUrl) is called
ValidateHtmlCall ==
    /\ call = NoCall
    /\ \E html \in Bodies, targetUrl \in TargetUrls :
          call' = [fn |-> "validateHtml", arg |-> <<html, targetUrl>>,
                   ret |-> ValidateHtmlThrows(html, targetUrl)]
    /\ UNCHANGED <<pipelineVars, race>>

(***************************************************************************)
(* processHtmlToDigest (scraperService.ts, htmlCleaner.ts).  A page is a   *)
(* sequence of pieces: whole tags, comment delimiters and runs of text.    *)
(* A piece of kind "lt" is text that starts with a literal '<' and holds   *)
(* no '>'; a piece of kind "css" is a rule ".name{...}"; no other text     *)
(* holds '<', '>', '{' or a custom property "--name:...;".                 *)
(***************************************************************************)
MaxBlocks == 3     \* blocks of markup in a raw page

MAX_HTML_BYTES == 300000
VISIBLE_TEXT_CHARS == 6000

Piece(kind, tag, text, len) == [kind |-> kind, tag |-> tag, text |-> text, len |-> len]

\* the " " the replace() calls put in place of what they remove
Space == Piece("space", "", " ", 1)

Heading(tag, open, text, close) ==
    <<Piece("open", tag, open, Len(open)), Piece("text", "", text, 5), Piece("close", tag, close, 5)>>

\* the blocks raw pages are made of
Blocks ==
    {\* a script block with a '<' in its body
     <<Piece("open", "script", "<script>", 8), Piece("text", "", "if(a", 4),
       Piece("lt", "", "<b)x()", 6), Piece("close", "script", "</script>", 9)>>,
     \* a script block with a body as long as the cap
     <<Piece("open", "script", "<SCRIPT src=x>", 14), Piece("text", "", "var big", MAX_HTML_BYTES),
       Piece("close", "script", "</script >", 10)>>,
     \* a script and a style element that are not closed
     <<Piece("open", "script", "<script>", 8), Piece("text", "", "tail()", 6)>>,
     <<Piece("open", "style", "<style media=x>", 15), Piece("css", "", ".b{margin:0}", 12)>>,
     <<Piece("open", "style", "<style>", 7), Piece("css", "", ".a{color:red}", 13),
       Piece("close", "style", "</style>", 8)>>,
     <<Piece("open", "!--", "<!--", 4), Piece("text", "", "hidden", 6), Piece("close", "!--", "-->", 3)>>,
     <<Piece("open", "svg", "<svg>", 5), Piece("open", "path", "<path d=x/>", 11),
       Piece("close", "svg", "</svg>", 6)>>,
     <<Piece("open", "template", "<template>", 10), Piece("text", "", "tpl", 3),
       Piece("close", "template", "</template>", 11)>>,
     <<Piece("link", "", "<link rel='stylesheet' href=x>", 30)>>,
     <<Piece("open", "p", "<p style='color:red'>", 21), Piece("text", "", "Hello", 5),
       Piece("close", "p", "</p>", 4)>>,
     Heading("title", "<title>", "Acme", "</title>"),
     \* <meta name="description" content="We sell things">
     <<Piece("meta", "", "We sell things", 50)>>,
     Heading("h1", "<h1>", "Zero", "</h1>"),
     \* five H1s and nine H2s, one more than the digest takes
     Heading("h1", "<h1>", "One", "</h1>") \o Heading("h1", "<H1 id=x>", "Two", "</H1>")
       \o Heading("h1", "<h1>", "Three", "</h1>") \o Heading("h1", "<h1>", "Four", "</h1>")
       \o Heading("h1", "<h1>", "Five", "</h1>"),
     Heading("h2", "<h2>", "A", "</h2>") \o Heading("h2", "<h2>", "B", "</h2>")
       \o Heading("h2", "<h2>", "C", "</h2>") \o Heading("h2", "<h2>", "D", "</h2>")
       \o Heading("h2", "<h2>", "E", "</h2>") \o Heading("h2", "<h2>", "F", "</h2>")
       \o Heading("h2", "<h2>", "G", "</h2>") \o Heading("h2", "<h2>", "H", "</h2>")
       \o Heading("h2", "<h2>", "I", "</h2>"),
     \* a text as long as the cap
     <<Piece("text", "", "lorem", MAX_HTML_BYTES)>>}

RECURSIVE Flatten(_)
Flatten(bs) == IF bs = <<>> THEN <<>> ELSE Head(bs) \o Flatten(Tail(bs))

RawPages == {Flatten(bs) : bs \in SeqsUpTo(Blocks, MaxBlocks)}

\* a piece that opens with '<', and one that holds a '>'
HasLt(p) == p.kind \in {"open", "link", "meta", "lt"} \/ (p.kind = "close" /\ p.tag # "!--")
HasGt(p) == p.kind \in {"close", "link", "meta"} \/ (p.kind = "open" /\ p.tag # "!--")

\* <tag[^>]*> and </tag\s*>, flags gi; exact: </tag> without white space
IsOpen(p, tag) == p.kind = "open" /\ p.tag = tag
IsClose(p, tag, exact) == p.kind = "close" /\ p.tag = tag /\ (exact => p.text # "</script >")

NextClose_NoLt(s, tag, exact) ==
    IF \E j \in 2..Len(s) : IsClose(s[j], tag, exact)
      THEN LET j == CHOOSE j \in 2..Len(s) :
                        IsClose(s[j], tag, exact) /\ \A k \in 2..(j - 1) : ~IsClose(s[k], tag, exact)
           IN  IF \E k \in 2..(j - 1) : s[k].kind = "lt" THEN 0 ELSE j
      ELSE 0

\* the first closing piece of the tag behind the head of s, 0 when there is none
NextClose(s, tag, exact) ==
    IF \E j \in 2..Len(s) : IsClose(s[j], tag, exact)
      THEN CHOOSE j \in 2..Len(s) :
               IsClose(s[j], tag, exact) /\ \A k \in 2..(j - 1) : ~IsClose(s[k], tag, exact)
      ELSE 0

\* the pieces of s at the positions K, in their order
Pick(s, K) ==
    LET at == SelectSeq([k \in 1..Len(s) |-> <<k, s[k]>>], LAMBDA p : p[1] \in K)
    IN  [n \in 1..Len(at) |-> at[n][2]]

\* String.prototype.replace with a global pattern "opening, anything, closing": the
\* matches are found from left to right, each runs from a position of starts to the
\* first position of ends behind it, and a match begins only behind the match before
\* it.  A piece lies inside a match that began before it when a position of starts
\* before it has no position of ends in between and one from the piece on.
Inside(k, starts, ends) ==
    \E i \in starts :
        /\ i < k
        /\ \A m \in (i + 1)..(k - 1) : m \notin ends
        /\ \E j \in ends : j >= k

ReplaceMatches(s, starts, ends, by) ==
    LET begins == {k \in starts : ~Inside(k, starts, ends) /\ \E j \in ends : j > k}
        kept == {k \in 1..Len(s) : ~Inside(k, starts, ends) /\ (by = <<>> => k \notin begins)}
    IN  IF begins = {} THEN s
        ELSE Pick([k \in 1..Len(s) |-> IF k \in begins /\ by # <<>> THEN by[1] ELSE s[k]], kept)

\* replace(/<tag[^>]*>[\s\S]*?<\/tag\s*>/gi, by)
ReplaceBlocks(s, tag, exact, by) ==
    ReplaceMatches(s, {i \in 1..Len(s) : IsOpen(s[i], tag)
                                          /\ NextClose(SubSeq(s, i, Len(s)), tag, exact) # 0},
                   {j \in 1..Len(s) : IsClose(s[j], tag, exact)}, by)

\* replace(/<tag[^>]*\/?>/gi, " ")
ReplaceOpens(s, tag) == [k \in 1..Len(s) |-> IF IsOpen(s[k], tag) THEN Space ELSE s[k]]

\* htmlCleaner.ts:84
tagsToRemove == <<"script", "style", "noscript", "svg", "path", "template">>

\* htmlCleaner.ts:85-94: the loop over tagsToRemove, from its k-th tag on
RECURSIVE RemoveTags(_, _)
RemoveTags(s, k) ==
    IF k > Len(tagsToRemove) THEN s
    ELSE RemoveTags(ReplaceOpens(ReplaceBlocks(s, tagsToRemove[k], FALSE, <<Space>>),
                                 tagsToRemove[k]), k + 1)

\* htmlCleaner.ts:100  replace(/<link\b[^>]*\brel\s*=\s*(['"])stylesheet\1[^>]*>/gi, "")
RemoveStylesheetLinks(s) == SelectSeq(s, LAMBDA p : p.kind # "link")

\* htmlCleaner.ts:103  replace(/\sstyle\s*=\s*(['"])[\s\S]*?\1/gi, "")
RemoveInlineStyles(s) ==
    [k \in 1..Len(s) |->
        IF s[k].text = "<p style='color:red'>" THEN Piece("open", "p", "<p>", 3) ELSE s[k]]

\* htmlCleaner.ts:79-106
StripCssJs(html) ==
    RemoveInlineStyles(RemoveStylesheetLinks(ReplaceBlocks(RemoveTags(html, 1), "!--", FALSE, <<>>)))

\* String.prototype.slice(0, n): a piece the end falls into is cut, and a cut tag is
\* text that opens with '<'
RECURSIVE Slice(_, _)
Slice(s, n) ==
    IF s = <<>> \/ n <= 0 THEN <<>>
    ELSE IF Head(s).len <= n THEN <<Head(s)>> \o Slice(Tail(s), n - Head(s).len)
    ELSE <<Piece(IF HasLt(Head(s)) THEN "lt" ELSE "text", "cut", Head(s).text, n)>>

\* replace(/<[^>]+>/gi, " "): a whole tag, or from a '<' in text through the next '>'
StripTags(s) ==
    LET whole == [k \in 1..Len(s) |-> IF HasLt(s[k]) /\ HasGt(s[k]) THEN Space ELSE s[k]]
    IN  ReplaceMatches(whole, {i \in 1..Len(s) : HasLt(s[i]) /\ ~HasGt(s[i])},
                       {j \in 1..Len(s) : HasGt(s[j])}, <<Space>>)

\* replace(/\s+/g, " ").trim()
CollapseTrim(s) ==
    LET kept == {k \in 1..Len(s) : s[k].kind # "space"}
        first == CHOOSE k \in kept : \A m \in kept : k <= m
        last == CHOOSE k \in kept : \A m \in kept : k >= m
    IN  IF kept = {} THEN <<>>
        ELSE Pick(s, {k \in first..last : s[k].kind = "space" => s[k + 1].kind # "space"})

\* htmlCleaner.ts:111-115, for the pattern of the title and that of the meta description
ExtractOne(html, pattern) ==
    IF pattern = "title"
      THEN LET starts == {i \in 1..Len(html) :
                             IsOpen(html[i], "title")
                             /\ NextClose(SubSeq(html, i, Len(html)), "title", TRUE) # 0}
           IN  IF starts = {} THEN <<>>
               ELSE LET i == CHOOSE i \in starts : \A m \in starts : i <= m
                        j == i - 1 + NextClose(SubSeq(html, i, Len(html)), "title", TRUE)
                    IN  CollapseTrim(SubSeq(html, i + 1, j - 1))
      ELSE LET metas == {i \in 1..Len(html) : html[i].kind = "meta"}
           IN  IF metas = {} THEN <<>>
               ELSE <<Piece("text", "", html[CHOOSE i \in metas : \A m \in metas : i <= m].text, 14)>>

\* htmlCleaner.ts:120-133: the matches of the pattern from left to right, their texts,
\* and the first limit of those that are not empty
ExtractMany(html, tag, limit) ==
    LET starts == {i \in 1..Len(html) : IsOpen(html[i], tag)
                                         /\ NextClose(SubSeq(html, i, Len(html)), tag, TRUE) # 0}
        ends == {j \in 1..Len(html) : IsClose(html[j], tag, TRUE)}
        matches == {i \in starts : ~Inside(i, starts, ends)}
        txt == [i \in matches |->
                   CollapseTrim(StripTags(SubSeq(html, i + 1,
                       i - 2 + NextClose(SubSeq(html, i, Len(html)), tag, TRUE))))]
        out == Pick([i \in 1..Len(html) |-> IF i \in matches THEN txt[i] ELSE <<>>],
                    {i \in matches : txt[i] # <<>>})
    IN  SubSeq(out, 1, IF Len(out) >= limit THEN limit ELSE Len(out))

\* htmlCleaner.ts:169  replace(/\.[a-zA-Z0-9_-]+[^{]*?{[^}]*?}/g, " ")
RemoveCssRules(s) == [k \in 1..Len(s) |-> IF s[k].kind = "css" THEN Space ELSE s[k]]

\* htmlCleaner.ts:142-162: the loop over tagsToNuke for one tag
NukeTag(s, tag) == ReplaceOpens(ReplaceBlocks(s, tag, TRUE, <<Space>>), tag)

\* htmlCleaner.ts:138-178
GetVisibleText(html, maxChars) ==
    Slice(CollapseTrim(RemoveCssRules(StripTags(NukeTag(NukeTag(html, "script"), "style")))),
          maxChars)

CleanHtml_CapFirst(raw_html) == StripCssJs(Slice(raw_html, MAX_HTML_BYTES))

\* scraperService.ts:366-367: clean_full, then clean
CleanHtml(raw_html) == Slice(StripCssJs(raw_html), MAX_HTML_BYTES)

\* scraperService.ts:362-392
ProcessHtmlToDigest(raw_html, url, proxyName) ==
    LET clean == CleanHtml(raw_html)
    IN  [START_URL |-> url, PROXY_VIA |-> proxyName,
         TITLE |-> ExtractOne(clean, "title"),
         META_DESCRIPTION |-> ExtractOne(clean, "meta"),
         H1 |-> ExtractMany(clean, "h1", 4),
         H2 |-> ExtractMany(clean, "h2", 8),
         VISIBLE_TEXT_SNIPPET |-> GetVisibleText(clean, VISIBLE_TEXT_CHARS)]

\* processHtmlToDigest(raw_html, url, proxyName) is called
ProcessHtmlToDigestCall ==
    /\ call = NoCall
    /\ \E raw_html \in RawPages, proxyName \in {"Direct", "ZenRows"} :
          call' = [fn |-> "processHtmlToDigest", arg |-> <<raw_html, "https://bar.test", proxyName>>,
                   ret |-> <<ProcessHtmlToDigest(raw_html, "https://bar.test", proxyName)>>]
    /\ UNCHANGED <<pipelineVars, race>>

\* processHtmlToDigest is called once more with the arguments of the call before
ProcessHtmlToDigestAgain ==
    /\ call.fn = "processHtmlToDigest"
    /\ Len(call.ret) = 1
    /\ call' = [call EXCEPT !.ret = Append(@, ProcessHtmlToDigest(call.arg[1], call.arg[2], call.arg[3]))]
    /\ UNCHANGED <<pipelineVars, race>>

(***************************************************************************)
(* enrichSingle (enrichmentService.ts) as seen from one pipeline item      *)
(***************************************************************************)
\* the answers the request of enrichSingle gets in the pipeline: an error status, and a
\* classification with confidence 0.8 or with none
PipelineResponses ==
    {resp \in ApiResponses :
        \/ resp.kind = "notOk"
        \/ /\ resp.kind = "ok" /\ resp.output_text = "object"
           /\ resp.parsed.classification = "Software"
           /\ resp.parsed.reasoning = "model reasoning"
           /\ resp.parsed.confidence \in {Num(80), [kind |-> "undefined", v |-> 0]}
           /\ resp.input_tokens = 1234 /\ resp.output_tokens = 311}

\* jobProcessor.ts:221-230: the fields of aiOutput the processor reads
AiOutput(r) ==
    [status |-> r.status, classification |-> r.classification, confidence |-> r.confidence,
     reasoning |-> Msg("", r.reasoning), cost |-> r.cost]

\* enrichmentService.ts:100-123: the objects enrichSingle returns
AiOutputs == {AiOutput(EnrichSingle(resp)) : resp \in PipelineResponses}

\* jobProcessor.ts:215-219: the call made through aiLimit rejects (its argument cannot
\* be built from the claimed row, or enrichSingle throws)
AiThrown ==
    [status |-> "thrown", classification |-> "", confidence |-> 0,
     reasoning |-> Msg("", "TypeError"), cost |-> 0]

\* jobProcessor.ts:213-236: the awaited enrichSingle call settles
Classify(l, i) ==
    /\ loop[l].pc = "pipeline"
    /\ loop[l].ipc[i] = "ai"
    /\ \E out \in AiOutputs \cup {AiThrown} :
          LET r == IF out = AiThrown
                     THEN AiException(loop[l].snap[i], out.reasoning.err)
                     ELSE AiOutcome(loop[l].snap[i], out, loop[l].dig[i])
              lp == [loop[l] EXCEPT !.ipc[i] = "done", !.res[i] = r]
          IN  loop' = [loop EXCEPT ![l] =
                  Pump(IF r.newStatus = "completed"
                         THEN [lp EXCEPT !.domainCache[DomainOf(i)] =
                                  [classification |-> out.classification,
                                   confidence |-> out.confidence,
                                   reasoning |-> out.reasoning]]
                         ELSE lp)]
    /\ UNCHANGED <<storeVars, envVars, isRunning, shouldStop, rec, inflight, calls, crashes, hist>>

(***************************************************************************)
(* processNextChunk: bulk database update                                  *)
(***************************************************************************)
AllDone(lp) == \A i \in lp.chunk : lp.ipc[i] = "done"

ItemWrite_KeepLock(row, r) ==
    IF r.kind = "retry"
      THEN [row EXCEPT !.status = "retrying", !.attempt_count = r.attempt_count,
                       !.next_retry_at = r.next_retry_at, !.error_message = r.msg,
                       !.finished_at = Null]
      ELSE [row EXCEPT !.status = r.newStatus,
                       !.error_message = IF r.success THEN NoMsg ELSE r.msg,
                       !.finished_at = r.at]

\* jobProcessor.ts:322-327 and 340-348: jobItemUpdate merged into the row by the upsert
ItemWrite(row, r) ==
    IF r.kind = "retry"
      THEN [row EXCEPT !.status = "retrying", !.attempt_count = r.attempt_count,
                       !.next_retry_at = r.next_retry_at, !.error_message = r.msg,
                       !.finished_at = Null, !.locked_at = Null]
      ELSE [row EXCEPT !.status = r.newStatus,
                       !.error_message = IF r.success THEN NoMsg ELSE r.msg,
                       !.finished_at = r.at]

\* jobProcessor.ts:301-310: enrichmentUpdate merged into the row by the upsert
EnrichmentWrite(row, r) ==
    [status |-> r.newStatus, classification |-> r.classification,
     confidence |-> r.confidence, reasoning |-> r.msg, cost |-> r.cost,
     page_html |-> IF r.digest # "" THEN r.digest ELSE row.page_html,
     processed_at |-> r.at]

\* jobProcessor.ts:312-317: contactUpdate merged into the row by the upsert
ContactWrite(row, r) == [row EXCEPT !.industry = r.classification]

\* jobProcessor.ts:252-257: results that carry an enrichmentUpdate and a contactUpdate
WithUpdates(lp) == {i \in lp.chunk : lp.res[i].kind = "result"}

Tallies_NotCompleted(lp) ==
    [j \in Jobs |->
        [completed |-> Cardinality({i \in lp.chunk : JobOf(i) = j /\ lp.res[i].newStatus = "completed"}),
         failed |-> Cardinality({i \in lp.chunk : JobOf(i) = j /\ lp.res[i].newStatus # "completed"})]]

\* jobProcessor.ts:245-248
Tallies(lp) ==
    [j \in Jobs |->
        [completed |-> Cardinality({i \in lp.chunk : JobOf(i) = j /\ lp.res[i].newStatus = "completed"}),
         failed |-> Cardinality({i \in lp.chunk : JobOf(i) = j /\ lp.res[i].newStatus = "failed"})]]

\* jobProcessor.ts:277
JobsToUpdate(lp) == {j \in Jobs : Tallies(lp)[j].completed > 0 \/ Tallies(lp)[j].failed > 0}

\* jobProcessor.ts:260-263
UpsertItems(l) ==
    /\ loop[l].pc = "pipeline"
    /\ AllDone(loop[l])
    /\ items' = [i \in DOMAIN items |-> IF i \in loop[l].chunk
                                   THEN ItemWrite(items[i], loop[l].res[i]) ELSE items[i]]
    /\ loop' = [loop EXCEPT ![l].tallies = Tallies(loop[l]),
                            ![l].fetchCalled = {}, ![l].netCalled = {}, ![l].aiCalled = {},
                            ![l].dnsCode = [i \in Items |-> ""],
                            ![l].jobsLeft = JobsToUpdate(loop[l]),
                            ![l].pc = IF WithUpdates(loop[l]) # {} THEN "upContacts"
                                      ELSE "pstate"]
    /\ UNCHANGED <<jobs, contacts, enrichments, scraped, envVars, isRunning, shouldStop,
                   rec, inflight, calls, crashes, hist>>

\* jobProcessor.ts:265-268
UpsertContacts(l) ==
    /\ loop[l].pc = "upContacts"
    /\ contacts' = [c \in DOMAIN contacts |->
                      IF c \in WithUpdates(loop[l])
                        THEN ContactWrite(contacts[c], loop[l].res[c]) ELSE contacts[c]]
    /\ loop' = [loop EXCEPT ![l].pc = "upEnrich"]
    /\ UNCHANGED <<items, jobs, enrichments, scraped, envVars, isRunning, shouldStop,
                   rec, inflight, calls, crashes, hist>>

\* jobProcessor.ts:270-273
UpsertEnrichments(l) ==
    /\ loop[l].pc = "upEnrich"
    /\ enrichments' = [c \in DOMAIN enrichments |->
                      IF c \in WithUpdates(loop[l])
                        THEN EnrichmentWrite(enrichments[c], loop[l].res[c]) ELSE enrichments[c]]
    /\ loop' = [loop EXCEPT ![l].pc = IF loop[l].jobsLeft # {} THEN "jobRead" ELSE "pstate"]
    /\ UNCHANGED <<items, jobs, contacts, scraped, envVars, isRunning, shouldStop,
                   rec, inflight, calls, crashes, hist>>

\* jobProcessor.ts:278
JobRead(l) ==
    /\ loop[l].pc = "jobRead"
    /\ LET j == CHOOSE x \in loop[l].jobsLeft : \A y \in loop[l].jobsLeft : x <= y
       IN  loop' = [loop EXCEPT ![l].pc = "jobWrite",
                                ![l].read = [job |-> j,
                                             completed_items |-> jobs[j].completed_items,
                                             failed_items |-> jobs[j].failed_items]]
    /\ UNCHANGED <<storeVars, envVars, isRunning, shouldStop, rec, inflight, calls, crashes, hist>>

\* jobProcessor.ts:280-283
JobWrite(l) ==
    /\ loop[l].pc = "jobWrite"
    /\ LET j == loop[l].read.job
       IN  /\ jobs' = [jobs EXCEPT
                ![j].completed_items = loop[l].read.completed_items + loop[l].tallies[j].completed,
                ![j].failed_items = loop[l].read.failed_items + loop[l].tallies[j].failed]
           /\ loop' = [loop EXCEPT ![l].jobsLeft = loop[l].jobsLeft \ {j},
                                   ![l].read = NoRead,
                                   ![l].pc = IF loop[l].jobsLeft \ {j} # {} THEN "jobRead"
                                             ELSE "pstate"]
    /\ UNCHANGED <<items, contacts, enrichments, scraped, envVars, isRunning, shouldStop,
                   rec, inflight, calls, crashes, hist>>

\* jobProcessor.ts:289-294 and 86-88: pipeline_state is touched, the chunk returns its size
PipelineState(l) ==
    /\ loop[l].pc = "pstate"
    /\ loop' = [loop EXCEPT ![l].pc = "yield", ![l].wakeAt = now]
    /\ UNCHANGED <<storeVars, envVars, isRunning, shouldStop, rec, inflight, calls, crashes, hist>>

(***************************************************************************)
(* Exceptions inside processNextChunk                                      *)
(***************************************************************************)
Caught_Unhandled(lp) == IdleLoop

\* jobProcessor.ts:95-98: the catch of pollLoop; the chunk's locals are gone and the loop
\* waits the error backoff before it evaluates the while condition again
Caught(lp) == [IdleLoop EXCEPT !.proc = lp.proc, !.pc = "sleep", !.wakeAt = now + ERROR_BACKOFF_MS]

\* jobProcessor.ts:80, 95: an awaited call of processNextChunk rejects or one of its
\* statements throws (a pipeline callback included: Promise.all then rejects and the
\* results of the callbacks still pending are discarded)
Throw(l) ==
    /\ loop[l].pc \in InChunk
    /\ calls[loop[l].proc].fault < budget.fault
    /\ calls' = [calls EXCEPT ![loop[l].proc].fault = @ + 1]
    /\ loop' = [loop EXCEPT ![l] = Caught(loop[l])]
    /\ UNCHANGED <<storeVars, envVars, isRunning, shouldStop, rec, inflight, crashes, hist>>

(***************************************************************************)
(* JobProcessor.recoverStaleJobs                                           *)
(***************************************************************************)
\* jobProcessor.ts:55  .eq('status', 'processing')
RecoverMatches(row) == row.status = "processing"

RecoverRow_KeepLock(row) == [row EXCEPT !.status = "pending"]

\* jobProcessor.ts:54
RecoverRow(row) == [row EXCEPT !.status = "pending", !.locked_at = Null]

ActiveJobs_Unfinished ==
    {j \in Jobs : /\ jobs[j].status \in {"pending", "processing"}
                  /\ jobs[j].completed_items + jobs[j].failed_items < jobs[j].total_items}

\* jobProcessor.ts:63-66: the jobs the count query counts
ActiveJobs == {j \in Jobs : jobs[j].status \in {"pending", "processing"}}

\* jobProcessor.ts:50-52: the call is made and its first request is under way
RecoverCall(p) ==
    /\ p \in procs
    /\ rec[p].pc = "idle"
    /\ calls[p].recover < budget.recover
    /\ calls' = [calls EXCEPT ![p].recover = calls[p].recover + 1]
    /\ rec' = [rec EXCEPT ![p] = [pc |-> "update", startup |-> p \notin hist.started]]
    /\ UNCHANGED <<storeVars, envVars, isRunning, shouldStop, loop, inflight, crashes, hist>>

\* jobProcessor.ts:52-60
RecoverUpdate(p) ==
    /\ rec[p].pc = "update"
    /\ items' = [i \in DOMAIN items |-> IF RecoverMatches(items[i]) THEN RecoverRow(items[i])
                                 ELSE items[i]]
    /\ rec' = [rec EXCEPT ![p].pc = "count"]
    /\ UNCHANGED <<jobs, contacts, enrichments, scraped, envVars, isRunning, shouldStop,
                   loop, inflight, calls, crashes, hist>>

\* jobProcessor.ts:63-71
RecoverCount(p) ==
    /\ rec[p].pc = "count"
    /\ rec' = [rec EXCEPT ![p].pc = "idle"]
    /\ IF Cardinality(ActiveJobs) > 0
         THEN Start(p)
         ELSE UNCHANGED <<isRunning, shouldStop, loop, hist>>
    /\ UNCHANGED <<storeVars, envVars, inflight, calls, crashes>>

(***************************************************************************)
(* Environment: time and process crashes                                   *)
(***************************************************************************)
TickMs == POLL_INTERVAL_MS

\* a time-valued field after TickMs have passed
Later(t) == IF t = Null THEN Null ELSE IF t >= TickMs THEN t - TickMs ELSE 0

\* The clock is advanced while a poll loop sleeps or yields between two chunks and
\* while no loop runs; the time a chunk takes is accounted for when it yields.
TimePasses ==
    \/ \E l \in Slots : loop[l].pc \in {"sleep", "yield"}
    \/ \A l \in Slots : loop[l].pc = "none"

Tick ==
    /\ TimePasses
    /\ items' = [i \in DOMAIN items |->
                    [items[i] EXCEPT !.next_retry_at = Later(@), !.locked_at = Later(@),
                                     !.finished_at = Later(@)]]
    /\ enrichments' = [c \in DOMAIN enrichments |->
                    [enrichments[c] EXCEPT !.processed_at = Later(@)]]
    /\ loop' = [l \in Slots |->
                    [loop[l] EXCEPT !.wakeAt = Later(@),
                                    !.res = [i \in Items |->
                                        [loop[l].res[i] EXCEPT !.next_retry_at = Later(@),
                                                               !.at = Later(@)]]]]
    /\ UNCHANGED <<jobs, contacts, scraped, envVars, isRunning, shouldStop, rec, inflight,
                   calls, crashes, hist>>

\* the process dies and is booted again: its static state and in-flight work are lost,
\* the Store keeps what was written
Crash(p) ==
    /\ p \in procs
    /\ crashes < budget.crash
    /\ LoopsOf(p) # {} \/ rec[p].pc # "idle"
    /\ crashes' = crashes + 1
    /\ loop' = [l \in Slots |-> IF l \in LoopsOf(p) THEN IdleLoop ELSE loop[l]]
    /\ isRunning' = [isRunning EXCEPT ![p] = FALSE]
    /\ shouldStop' = [shouldStop EXCEPT ![p] = FALSE]
    /\ rec' = [rec EXCEPT ![p] = IdleRec]
    /\ inflight' = {w \in inflight : w.proc # p}
    /\ UNCHANGED calls
    /\ hist' = [hist EXCEPT !.started = hist.started \ {p}]
    /\ UNCHANGED <<storeVars, envVars>>

(***************************************************************************)
(* Properties.  A step of the protocol is recognised by the position the   *)
(* loop or the recovery leaves and the one it reaches.                     *)
(***************************************************************************)
SelectStep(l) == loop[l].pc = "select" /\ loop'[l].pc \in {"update", "sleep"}
ClaimStep(l) == loop[l].pc = "update" /\ loop'[l].pc \in {"cacheE", "pipeline"}
FetchStep(l, i) ==
    /\ loop[l].pc = "pipeline" /\ loop[l].ipc[i] = "fetch"
    /\ loop'[l].pc = "pipeline" /\ loop'[l].ipc[i] # "fetch"
AggregateStep(l) == loop[l].pc = "pipeline" /\ loop'[l].pc \in {"upContacts", "pstate"}
RecoverStep(p) == rec[p].pc = "update" /\ rec'[p].pc = "count"
RecoverDone(p) == rec[p].pc = "count" /\ rec'[p].pc = "idle" /\ crashes' = crashes

\* the items an in-flight chunk has claimed and not yet written back
Holding(l) == IF loop[l].pc \in {"cacheE", "cacheD", "pipeline"} THEN loop[l].chunk ELSE {}

\* C1: every change of a job item's status is pending->processing or
\* retrying->processing made by a claim, processing->completed, ->failed or
\* ->retrying made by the aggregation, or processing->pending made by
\* recoverStaleJobs; no other status change occurs.
C1_StatusTransitions ==
    [][\A i \in DOMAIN items :
          items'[i].status # items[i].status =>
             \/ /\ items[i].status \in {"pending", "retrying"}
                /\ items'[i].status = "processing"
                /\ \E l \in Slots : ClaimStep(l)
             \/ /\ items[i].status = "processing"
                /\ items'[i].status \in {"completed", "failed", "retrying"}
                /\ \E l \in Slots : AggregateStep(l)
             \/ /\ items[i].status = "processing"
                /\ items'[i].status = "pending"
                /\ \E p \in Procs : RecoverStep(p)]_vars

\* C2: once a job item is completed or failed, no claim, aggregation write or
\* recovery changes its status, and no later selection or claim takes it.
C2_TerminalStatus ==
    [][\A i \in DOMAIN items :
          items[i].status \in {"completed", "failed"} =>
             /\ items'[i].status = items[i].status
             /\ \A l \in Slots : SelectStep(l) => i \notin loop'[l].ids
             /\ \A l \in Slots : ClaimStep(l) => i \notin loop'[l].chunk]_vars

\* a recovery has run over a terminal item after the crash of the controller
C2_Witness ==
    /\ crashes >= 1
    /\ rec[1].pc = "count"
    /\ LoopsOf(1) = {}
    /\ \E i \in DOMAIN items : items[i].status \in {"completed", "failed"}

\* C3: a job item that one claim has obtained and is still processing is not
\* also obtained by another claim: at most one in-flight chunk holds it.
C3_OneHolder ==
    \A i \in DOMAIN items : Cardinality({l \in Slots : i \in Holding(l)}) <= 1

\* C4: a claim takes only items that were pending or retrying with
\* next_retry_at null or not in the future when selected, at most
\* QUEUE_FETCH_CHUNK_SIZE of them, and leaves each processing with locked_at
\* set; when no more than QUEUE_FETCH_CHUNK_SIZE items are due it takes
\* exactly those, and nothing is due for a claim that follows immediately.
C4_Claim ==
    [][\A l \in Slots :
          LET due == {i \in DOMAIN items :
                        /\ items[i].status \in {"pending", "retrying"}
                        /\ (items[i].next_retry_at = Null \/ items[i].next_retry_at <= 0)}
              dueAfter == {i \in DOMAIN items :
                        /\ items'[i].status \in {"pending", "retrying"}
                        /\ (items'[i].next_retry_at = Null \/ items'[i].next_retry_at <= 0)}
          IN  /\ SelectStep(l) =>
                   /\ loop'[l].ids \subseteq due
                   /\ Cardinality(loop'[l].ids) <= QUEUE_FETCH_CHUNK_SIZE
                   /\ Cardinality(due) <= QUEUE_FETCH_CHUNK_SIZE => loop'[l].ids = due
              /\ ClaimStep(l) =>
                   /\ loop'[l].chunk = loop[l].ids
                   /\ loop'[l].chunk \subseteq due
                   /\ Cardinality(loop'[l].chunk) <= QUEUE_FETCH_CHUNK_SIZE
                   /\ \A i \in loop'[l].chunk :
                         items'[i].status = "processing" /\ items'[i].locked_at = 0
                   /\ \A i \in DOMAIN items \ loop'[l].chunk : items'[i] = items[i]
                   /\ Cardinality(due) <= QUEUE_FETCH_CHUNK_SIZE =>
                         loop'[l].chunk = due /\ dueAfter = {}]_vars

\* a claim of QUEUE_FETCH_CHUNK_SIZE items that leaves a due item in the queue
C4_Witness ==
    \E l \in Slots :
       /\ loop[l].pc \in {"cacheE", "pipeline"}
       /\ Cardinality(loop[l].chunk) = QUEUE_FETCH_CHUNK_SIZE
       /\ \A i \in loop[l].chunk : items[i].status = "processing" /\ items[i].locked_at # Null
       /\ \E i \in DOMAIN items \ loop[l].chunk : items[i].status = "pending"

\* C5: a retry outcome writes status retrying, attempt_count = previous
\* attempt_count + 1, next_retry_at = now + 2000 ms * 2^(previous
\* attempt_count) and locked_at null.
C5_Retry ==
    [][\A l \in Slots : AggregateStep(l) =>
          \A i \in loop[l].chunk :
             (loop[l].res[i].kind = "retry" \/ items'[i].status = "retrying") =>
                /\ items'[i].status = "retrying"
                /\ items'[i].attempt_count = items[i].attempt_count + 1
                /\ items'[i].next_retry_at = 0 + 2000 * (2 ^ items[i].attempt_count)
                /\ items'[i].locked_at = Null]_vars

\* the third retry of an item has just been written: 2000 * 2^2 ms ahead
C5_Witness ==
    \E i \in DOMAIN items :
       /\ items[i].status = "retrying"
       /\ items[i].attempt_count = 3
       /\ items[i].next_retry_at = 8000
       /\ items[i].locked_at = Null

\* C6: attempt_count never exceeds MAX_RETRIES; an item whose attempt_count
\* has reached MAX_RETRIES and that fails again goes to failed with that
\* error recorded, never to retrying.
C6_MaxRetries ==
    [][/\ \A i \in DOMAIN items : items'[i].attempt_count <= MAX_RETRIES
       /\ \A l \in Slots : AggregateStep(l) =>
             \A i \in loop[l].chunk :
                (items[i].attempt_count >= MAX_RETRIES /\ ~loop[l].res[i].success) =>
                   /\ items'[i].status = "failed"
                   /\ items'[i].attempt_count = items[i].attempt_count
                   /\ items'[i].error_message = loop[l].res[i].msg
                   /\ items'[i].error_message.err # ""]_vars

\* an item has failed on a retryable error after MAX_RETRIES retries
C6_Witness ==
    \E i \in DOMAIN items :
       /\ items[i].status = "failed"
       /\ items[i].attempt_count = MAX_RETRIES
       /\ items[i].error_message.err \in {"Bulletproof scraping failed for https://bar.test", "OpenAI API Error: 500"}

\* C7: a claimed item whose contact's website has an enrichment with status
\* completed and confidence >= 7 ends the chunk completed with that
\* enrichment's classification and cost 0, and neither fetchDigest nor
\* enrichSingle is invoked for it.
C7_CacheHit ==
    [][\A l \in Slots : AggregateStep(l) =>
          \A i \in loop[l].chunk :
             LET prior == {c \in DOMAIN enrichments :
                             /\ c # i
                             /\ enrichments[c].status = "completed"
                             /\ enrichments[c].confidence >= 7
                             /\ contacts[c].company_website = contacts[i].company_website}
             IN  (contacts[i].company_website # "" /\ prior # {}) =>
                    /\ items'[i].status = "completed"
                    /\ loop[l].res[i].cost = 0
                    /\ loop[l].res[i].classification \in
                          {enrichments[c].classification : c \in prior}
                    /\ i \notin loop[l].fetchCalled
                    /\ i \notin loop[l].aiCalled]_vars

\* C8: fetchDigest fails fast exactly when the resolver answers ENOTFOUND or
\* ENODATA: then no Tier 1 or Tier 2 request is made and the item goes from
\* processing to failed with its attempt_count unchanged, whatever it is; on
\* any other answer the Tier 1 race is started.
C8_FastFail ==
    [][\A l \in Slots :
          /\ \A i \in Items : FetchStep(l, i) =>
                LET code == loop'[l].dnsCode[i]
                    fast == loop'[l].res[i].msg.err \in
                               {"FastFail: Domain completely unreachable (ENOTFOUND)",
                                "FastFail: Domain completely unreachable (ENODATA)"}
                IN  /\ fast <=> code \in {"ENOTFOUND", "ENODATA"}
                    /\ fast => /\ i \notin loop'[l].netCalled
                               /\ loop'[l].res[i].kind = "result"
                               /\ loop'[l].res[i].newStatus = "failed"
                    /\ ~fast => i \in loop'[l].netCalled
          /\ AggregateStep(l) =>
                \A i \in loop[l].chunk :
                   loop[l].dnsCode[i] \in {"ENOTFOUND", "ENODATA"} =>
                      /\ items[i].status = "processing"
                      /\ items'[i].status = "failed"
                      /\ items'[i].attempt_count = items[i].attempt_count]_vars

\* an item that had been retried has failed on a DNS fast-fail
C8_Witness ==
    \E i \in DOMAIN items :
       /\ items[i].status = "failed"
       /\ items[i].attempt_count >= 1
       /\ items[i].error_message =
             [prefix |-> "Scrape terminal error",
              err |-> "FastFail: Domain completely unreachable (ENODATA)"]

\* C9: when recoverStaleJobs() runs at startup, every item it finds in
\* processing becomes pending with locked_at null and nothing else changed;
\* when it completes no item is in processing, and start() has been invoked
\* if and only if some job has status pending or processing.
C9_StartupRecovery ==
    [][\A p \in Procs :
          /\ (rec[p].startup /\ RecoverStep(p)) =>
                \A i \in DOMAIN items :
                   items[i].status = "processing" =>
                      items'[i] = [items[i] EXCEPT !.status = "pending", !.locked_at = Null]
          /\ (rec[p].startup /\ RecoverDone(p) /\ p \notin hist.started) =>
                /\ \A i \in DOMAIN items : items'[i].status # "processing"
                /\ (p \in hist'.started) <=>
                      (\E j \in Jobs : jobs[j].status \in {"pending", "processing"})
                /\ isRunning'[p] <=> p \in hist'.started
                /\ (p \in hist'.started) =>
                      \E l \in Slots : loop'[l].proc = p /\ loop'[l].pc = "select"]_vars

\* after a crash the only recovery made has reset an item that had been
\* retried and restarted the controller
C9_Witness ==
    /\ crashes >= 1
    /\ calls[1].recover = 1
    /\ rec[1].pc = "idle" /\ rec[1].startup
    /\ isRunning[1]
    /\ \E i \in DOMAIN items :
          /\ items[i].status = "pending"
          /\ items[i].attempt_count >= 1
          /\ items[i].locked_at = Null

\* C10: a start() that finds the controller running changes nothing, and
\* under any interleaving of start(), stop() and recoverStaleJobs() a process
\* has at most one poll loop, which exists exactly while isRunning is set.
C10_OneLoop ==
    [][\A p \in Procs :
          LET loops == {l \in Slots : loop'[l].pc # "none" /\ loop'[l].proc = p}
          IN  /\ Cardinality(loops) <= 1
              /\ isRunning'[p] <=> loops # {}
              /\ calls'[p].again # calls[p].again =>
                    UNCHANGED <<storeVars, isRunning, shouldStop, loop, rec, inflight>>]_vars

\* start() has been called while the controller was running, after stop(),
\* restart and recovery calls
C10_Witness ==
    /\ calls[1].again >= 1
    /\ calls[1].start = 2
    /\ calls[1].stop >= 1
    /\ calls[1].recover >= 1
    /\ isRunning[1]

\* C11: stop() does not interrupt a chunk: the call changes nothing but the
\* flag, a loop leaves processNextChunk only by returning from it, with the
\* result of every item of its chunk written, and ends only between two
\* chunks; once the flag is set the loop begins no further processNextChunk.
C11_StopAfterChunk ==
    [][/\ \A p \in Procs :
             (~shouldStop[p] /\ shouldStop'[p]) =>
                UNCHANGED <<storeVars, loop, isRunning, rec, inflight>>
       /\ \A l \in Slots :
             /\ (loop[l].pc \in InChunk /\ loop'[l].pc \notin InChunk) =>
                   /\ loop'[l].pc \in {"sleep", "yield"}
                   /\ \A i \in loop'[l].chunk :
                         items'[i].status \in {"completed", "failed", "retrying"}
             /\ (loop[l].pc # "none" /\ loop'[l].pc = "none") =>
                   /\ loop[l].pc \in {"sleep", "yield"}
                   /\ shouldStop[loop[l].proc]
             /\ (loop[l].pc \in {"sleep", "yield"} /\ shouldStop[loop[l].proc]) =>
                   loop'[l].pc \notin InChunk]_vars

\* the stop flag is set while a claimed chunk is past its pipeline and the
\* results of its items are written
C11_Witness ==
    \E l \in Slots :
       /\ loop[l].pc = "jobWrite"
       /\ shouldStop[loop[l].proc]
       /\ loop[l].chunk # {}
       /\ \A i \in loop[l].chunk : items[i].status \in {"completed", "failed", "retrying"}

\* C12: nothing that happens inside processNextChunk ends the poll loop: an
\* exception is caught by the loop, which then waits the fixed error backoff
\* and polls again; the loop ends, and isRunning is cleared, only after stop().
C12_LoopSurvives ==
    [][\A l \in Slots :
          /\ (loop[l].pc \in InChunk /\ calls'[loop[l].proc].fault # calls[loop[l].proc].fault) =>
                /\ loop'[l].pc = "sleep"
                /\ loop'[l].proc = loop[l].proc
                /\ loop'[l].wakeAt = 5000
                /\ isRunning'[loop[l].proc]
          /\ (loop[l].pc \in InChunk) =>
                /\ loop'[l].pc # "none"
                /\ isRunning'[loop[l].proc]
          /\ (loop[l].pc # "none" /\ ~shouldStop[loop[l].proc]) =>
                /\ loop'[l].pc # "none"
                /\ isRunning'[loop[l].proc]
          /\ (loop[l].pc = "sleep" /\ loop'[l].pc # "sleep" /\ ~shouldStop[loop[l].proc]) =>
                /\ loop[l].wakeAt = 0
                /\ loop'[l].pc = "select"]_vars

\* after FaultThrows exceptions and an item failure the controller is still
\* running and has polled again
C12_Witness ==
    \E l \in Slots :
       /\ calls[1].fault = FaultThrows
       /\ loop[l].pc = "select"
       /\ isRunning[1] /\ ~shouldStop[1]
       /\ \E i \in DOMAIN items : items[i].status = "failed"

\* C13: the Tier 1 race returns the content of the first attempt that passes
\* validation, and when it returns every other attempt still in flight (the
\* direct fetch with its plain-HTTP retry, each relay fetch) has been
\* cancelled: no Tier 1 request remains in flight.
C13_Tier1Race ==
    [][/\ (race.pc = "racing" /\ race'.pc = "returned") =>
             \E a \in Attempts :
                /\ race.att[a] \in {"fetch", "httpRetry"}
                /\ \A b \in Attempts : race.att[b] # "fulfilled"
                /\ race'.att[a] = "fulfilled"
                /\ race'.proxyName = a
                /\ race'.raw_html = race'.html[a]
                /\ ~race'.raw_html.blocked /\ race'.raw_html.len >= 200
       /\ race'.pc = "returned" =>
             \A b \in Attempts : race'.att[b] \notin {"fetch", "httpRetry"}]_vars

\* C14: at every moment at most CONCURRENCY_SCRAPE fetchDigest calls and at
\* most CONCURRENCY_AI enrichSingle calls of a process are in flight, and the
\* two limits are independent: an item that waits for or holds a classify
\* slot holds no fetch slot, and an item waits for a slot of one kind only
\* while all slots of that kind are held.
C14_Limits ==
    \A p \in Procs :
       LET fetching == {<<l, i>> \in Slots \X Items :
                           loop[l].pc = "pipeline" /\ loop[l].proc = p /\ loop[l].ipc[i] = "fetch"}
           classifying == {<<l, i>> \in Slots \X Items :
                           loop[l].pc = "pipeline" /\ loop[l].proc = p /\ loop[l].ipc[i] = "ai"}
           waitFetch == {<<l, i>> \in Slots \X Items :
                           loop[l].pc = "pipeline" /\ loop[l].proc = p /\ loop[l].ipc[i] = "qScrape"}
           waitClassify == {<<l, i>> \in Slots \X Items :
                           loop[l].pc = "pipeline" /\ loop[l].proc = p /\ loop[l].ipc[i] = "qAI"}
       IN  /\ Cardinality(fetching) <= CONCURRENCY_SCRAPE
           /\ Cardinality(classifying) <= CONCURRENCY_AI
           /\ fetching \cap (classifying \cup waitClassify) = {}
           /\ waitFetch # {} => Cardinality(fetching) = CONCURRENCY_SCRAPE
           /\ waitClassify # {} => Cardinality(classifying) = CONCURRENCY_AI
           /\ \A l \in Slots : loop[l].pc = "pipeline" /\ loop[l].proc = p =>
                 /\ {loop[l].qS[k] : k \in 1..Len(loop[l].qS)} = {i \in Items : <<l, i>> \in waitFetch}
                 /\ {loop[l].qA[k] : k \in 1..Len(loop[l].qA)} = {i \in Items : <<l, i>> \in waitClassify}

\* every classify slot is held while every fetch slot is held by another item
C14_Witness ==
    \E l \in Slots :
       /\ loop[l].pc = "pipeline"
       /\ ScrapeActive(loop[l]) = CONCURRENCY_SCRAPE
       /\ AiActive(loop[l]) = CONCURRENCY_AI
       /\ loop[l].aiCalled # {} /\ loop[l].fetchCalled # loop[l].aiCalled

\* C15: an item whose fetch failed otherwise than by a DNS fast-fail, or
\* whose classification failed (exception, status other than completed, or
\* classification "ERROR"), moves to retrying, not to failed, while its
\* attempt_count is below MAX_RETRIES; after a DNS fast-fail it always moves
\* to failed.
C15_Retryable ==
    [][\A l \in Slots : AggregateStep(l) =>
          \A i \in loop[l].chunk :
             LET fastFail == loop[l].dnsCode[i] \in {"ENOTFOUND", "ENODATA"}
                 failure == /\ i \in loop[l].fetchCalled \cup loop[l].aiCalled
                            /\ ~loop[l].res[i].success
             IN  /\ fastFail => items'[i].status = "failed"
                 /\ (failure /\ ~fastFail /\ items[i].attempt_count < MAX_RETRIES) =>
                       items'[i].status = "retrying"]_vars

\* C16: for each chunk and each job, the aggregation adds to completed_items
\* exactly the number of the job's items of the chunk that ended completed
\* and to failed_items exactly the number that ended failed; an item that
\* ended retrying changes no counter, no enrichments row and no contacts row.
C16_Aggregation ==
    [][\A l \in Slots :
          LET ended(j, s) == Cardinality({i \in loop[l].chunk :
                                             JobOf(i) = j /\ items[i].status = s})
              total(j, s) == Cardinality({i \in DOMAIN items :
                                             JobOf(i) = j /\ items'[i].status = s})
              retried == {i \in loop[l].chunk : items[i].status = "retrying"}
          IN  /\ (loop[l].pc = "jobWrite" /\ loop'[l].pc # "jobWrite") =>
                    \A j \in Jobs :
                       IF j = loop[l].read.job
                         THEN /\ jobs'[j].completed_items =
                                    jobs[j].completed_items + ended(j, "completed")
                              /\ jobs'[j].failed_items =
                                    jobs[j].failed_items + ended(j, "failed")
                         ELSE jobs'[j] = jobs[j]
              /\ (loop[l].pc \in {"upContacts", "upEnrich", "jobRead", "jobWrite"}) =>
                    /\ \A i \in retried :
                          contacts'[i] = contacts[i] /\ enrichments'[i] = enrichments[i]
                    /\ (\A i \in loop[l].chunk : i \in retried) => jobs' = jobs
              /\ (loop[l].pc # "pstate" /\ loop'[l].pc = "pstate") =>
                    \A j \in Jobs :
                       /\ jobs'[j].completed_items = total(j, "completed")
                       /\ jobs'[j].failed_items = total(j, "failed")]_vars

\* a chunk in which one item was retried and one completed has been
\* aggregated after an earlier chunk had already counted an item
C16_Witness ==
    \E l \in Slots :
       /\ loop[l].pc = "pstate"
       /\ \E i \in loop[l].chunk : items[i].status = "retrying"
       /\ \E i \in loop[l].chunk : items[i].status = "completed"
       /\ \E i \in DOMAIN items \ loop[l].chunk : items[i].status \in {"completed", "failed"}
       /\ \E j \in Jobs : jobs[j].completed_items + jobs[j].failed_items >= 2

\* C17: normalizeConfidence returns an integer from 1 to 10 for every input:
\* 5 for null, undefined and non-numeric input; otherwise the number, times
\* 10 if it is in (0,1], divided by 10 if it is above 10, rounded to the
\* nearest integer and clamped to [1,10]; 0.8 gives 8, 100 gives 10, 7 gives
\* 7, -3 gives 1 and "x" gives 5.
C17_NormalizeConfidence ==
    call.fn = "normalizeConfidence" =>
       LET val == call.arg
           ret == call.ret
           nearest(p, q, r) == 2 * q * r - q <= 2 * p /\ 2 * p < 2 * q * r + q
           clamped(r) == IF r < 1 THEN 1 ELSE IF r > 10 THEN 10 ELSE r
           agrees(p, q) == \E r \in -10..110 : nearest(p, q, r) /\ ret = clamped(r)
       IN  /\ ret \in 1..10
           /\ val.kind \in {"null", "undefined", "text"} => ret = 5
           /\ val.kind \in {"number", "string"} =>
                 IF val.v > 0 /\ val.v <= 100 THEN agrees(val.v * 10, 100)
                 ELSE IF val.v > 1000 THEN agrees(val.v, 1000)
                 ELSE agrees(val.v, 100)
           /\ val = [kind |-> "number", v |-> 80] => ret = 8
           /\ val = [kind |-> "number", v |-> 10000] => ret = 10
           /\ val = [kind |-> "number", v |-> 700] => ret = 7
           /\ val = [kind |-> "number", v |-> -300] => ret = 1
           /\ val = [kind |-> "text", v |-> 0] => ret = 5

\* 10.49 has been normalized: divided by 10 and rounded to 1
C17_Witness ==
    /\ call.fn = "normalizeConfidence"
    /\ call.arg = [kind |-> "number", v |-> 1049]
    /\ call.ret = 1

\* C18: every enrichments row the aggregation writes, for a cache hit, a
\* classifier success or a terminal failure, has a confidence that is an
\* integer from 1 to 10.
C18_ConfidenceRange ==
    [][\A l \in Slots :
          (loop[l].pc = "upEnrich" /\ loop'[l].pc # "upEnrich") =>
             /\ \A i \in loop[l].chunk :
                   items[i].status \in {"completed", "failed"} =>
                      /\ enrichments'[i].status = items[i].status
                      /\ enrichments'[i].confidence \in 1..10
             /\ \A c \in DOMAIN enrichments :
                   enrichments'[c] # enrichments[c] => enrichments'[c].confidence \in 1..10]_vars

\* rows have been written for a cache hit, for a classifier success and for
\* a terminal failure
C18_Witness ==
    /\ \E c \in DOMAIN enrichments \ {0} :
          /\ enrichments[c].status = "completed"
          /\ enrichments[c].reasoning.err = "Reused high-confidence classification"
          /\ enrichments[c].confidence = 9
    /\ \E c \in DOMAIN enrichments \ {0} :
          /\ enrichments[c].status = "completed"
          /\ enrichments[c].reasoning.err = "model reasoning"
    /\ \E c \in DOMAIN enrichments \ {0} :
          /\ enrichments[c].status = "failed"
          /\ enrichments[c].confidence = 1

\* C19: enrichSingle never throws: when the API answers an error status, no
\* model output or output that cannot be parsed, and when the request itself
\* fails, it returns classification "ERROR", status failed and cost 0.
C19_EnrichSingleReturns ==
    call.fn = "enrichSingle" =>
       LET resp == call.arg
           failure == \/ resp.kind \in {"rejected", "notOk", "notJson"}
                      \/ resp.output_text \in {"none", "empty", "notJson", "null"}
       IN  /\ ~call.ret.threw
           /\ failure => /\ call.ret.classification = "ERROR"
                         /\ call.ret.status = "failed"
                         /\ call.ret.cost = 0
           /\ ~failure => call.ret.status = "completed"

\* the API has answered with tokens used and an output that is no JSON
C19_Witness ==
    /\ call.fn = "enrichSingle"
    /\ call.arg.kind = "ok" /\ call.arg.output_text = "notJson"
    /\ call.arg.input_tokens > 0
    /\ call.ret.status = "failed" /\ call.ret.cost = 0

\* C20: a job item's attempt_count changes only when the item goes from
\* processing to retrying, and then it grows: claiming, completing, failing
\* and recovery leave it unchanged, so it never decreases.
C20_AttemptCount ==
    [][\A i \in DOMAIN items :
          items'[i].attempt_count # items[i].attempt_count =>
             /\ items[i].status = "processing"
             /\ items'[i].status = "retrying"
             /\ items'[i].attempt_count > items[i].attempt_count]_vars

\* C21: a contact's industry is written only when the classification of its
\* job item succeeded (cache hit or classifier success), and then it is the
\* resulting classification; an item that ends failed or retrying leaves the
\* industry of its contact unchanged.
C21_ContactIndustry ==
    [][\A c \in DOMAIN contacts :
          /\ contacts'[c].industry # contacts[c].industry =>
                \E l \in Slots :
                   /\ loop[l].pc = "upContacts"
                   /\ c \in loop[l].chunk
                   /\ items[c].status = "completed"
                   /\ contacts'[c].industry = loop[l].res[c].classification
          /\ \A l \in Slots :
                (loop[l].pc = "upContacts" /\ loop'[l].pc # "upContacts" /\ c \in loop[l].chunk) =>
                   IF items[c].status = "completed"
                     THEN contacts'[c].industry = loop[l].res[c].classification
                     ELSE contacts'[c].industry = contacts[c].industry]_vars

\* C22: when the claim writes no row (the Store rejects the status flip) or the
\* selection finds no due item, processNextChunk returns 0 without throwing:
\* no job item, enrichment, contact or job counter is written, and the loop
\* waits the poll interval as it does for an empty queue.
C22_EmptyClaim ==
    [][\A l \in Slots :
          LET noThrow == calls'[loop[l].proc].fault = calls[loop[l].proc].fault
          IN  /\ (loop[l].pc = "select" /\ DueItems = {} /\ loop'[l] # loop[l] /\ noThrow) =>
                    /\ loop'[l].pc = "sleep"
                    /\ loop'[l].wakeAt = now + POLL_INTERVAL_MS
                    /\ storeVars' = storeVars
              /\ (loop[l].pc = "update" /\ loop'[l].pc # "update" /\ loop'[l].chunk = {} /\ noThrow) =>
                    /\ loop'[l].pc = "sleep"
                    /\ loop'[l].proc = loop[l].proc
                    /\ loop'[l].wakeAt = now + POLL_INTERVAL_MS
                    /\ storeVars' = storeVars
              /\ (loop[l].pc \in {"select", "update"} /\ loop'[l].pc = "sleep" /\ noThrow) =>
                    /\ isRunning'[loop[l].proc]
                    /\ storeVars' = storeVars]_vars

\* a claim of a selected item came back empty: the item is still pending and
\* unlocked, and the loop sleeps the poll interval
C22_Witness ==
    \E l \in Slots :
       /\ loop[l].pc = "sleep"
       /\ loop[l].ids # {}
       /\ loop[l].chunk = {}
       /\ loop[l].wakeAt = POLL_INTERVAL_MS
       /\ \A i \in loop[l].ids : items[i].status = "pending" /\ items[i].locked_at = Null

\* C23: validateHtml rejects a body that contains, in any letter case, a
\* block-page signature that is not part of the target URL, whatever its
\* length, and gives the matched signature as the reason; it rejects a body
\* whose trimmed length is below the minimum; it accepts every other body.
C23_ValidateHtml ==
    call.fn = "validateHtml" =>
       LET html == call.arg[1]
           url == call.arg[2]
           sigs == {proxySignatures[k] : k \in 1..Len(proxySignatures)}
           inBody == {s \in sigs : \E k \in 1..Len(html) : LowerText(html[k].text) = s}
           inUrl == {s \in sigs : \E k \in 1..Len(url) : LowerText(url[k].text) = s}
           allSpace == \A k \in 1..Len(html) : html[k].space
           trimmed == IF allSpace THEN 0
                      ELSE LET a == CHOOSE k \in 1..Len(html) :
                                       ~html[k].space /\ \A m \in 1..k - 1 : html[m].space
                               b == CHOOSE k \in 1..Len(html) :
                                       ~html[k].space /\ \A m \in k + 1..Len(html) : html[m].space
                           IN  Length(SubSeq(html, a, b))
       IN  IF inBody \ inUrl # {}
             THEN call.ret.prefix = "Blocked by proxy" /\ call.ret.err \in inBody \ inUrl
           ELSE IF trimmed < MIN_HTML_LENGTH
             THEN call.ret = Msg("", "Insufficient content length")
           ELSE call.ret = NoThrow

\* a body of sufficient length in which "Access Denied" occurs was rejected for
\* the signature
C23_Witness ==
    /\ call.fn = "validateHtml"
    /\ Length(call.arg[1]) >= MIN_HTML_LENGTH
    /\ \E k \in 1..Len(call.arg[1]) : call.arg[1][k].text = "Access Denied"
    /\ call.ret = Msg("Blocked by proxy", "access denied")

\* C24: recoverStaleJobs resets only job items a crash left in processing: an
\* item that an in-flight chunk of the running controller is processing is
\* not reset.
C24_RecoverOnlyStale ==
    [][\A p \in Procs :
          RecoverStep(p) =>
             \A l \in Slots :
                \A i \in Holding(l) : items'[i] = items[i]]_vars

\* C25: a job item is counted in the counters of its job at most once over
\* its whole life (retries, crashes and recovery included): completed_items +
\* failed_items never exceeds total_items, and once every item of the job is
\* terminal and no chunk is at work the counters equal the numbers of
\* completed and of failed items.
C25_CountedOnce ==
    \A j \in Jobs :
       LET mine == {i \in DOMAIN items : JobOf(i) = j}
           completed == Cardinality({i \in mine : items[i].status = "completed"})
           failed == Cardinality({i \in mine : items[i].status = "failed"})
       IN  /\ jobs[j].completed_items + jobs[j].failed_items <= jobs[j].total_items
           /\ ((\A i \in mine : items[i].status \in {"completed", "failed"}) /\
               (\A l \in Slots : loop[l].pc \notin InChunk)) =>
                  /\ jobs[j].completed_items = completed
                  /\ jobs[j].failed_items = failed

\* C26: when processNextChunk finishes, by returning or by throwing, and the
\* process has not crashed, none of the items it claimed is left in
\* processing.
C26_NoneLeftProcessing ==
    [][\A l \in Slots :
          (loop[l].pc \in InChunk /\ loop'[l].pc \notin InChunk /\ crashes' = crashes) =>
             \A i \in loop[l].chunk : items'[i].status # "processing"]_vars

\* C27: a start() call is never lost: when start() returns, also when it was
\* called after a stop() whose loop has not yet ended, the controller is
\* running with the stop flag cleared and has a poll loop, which ends only
\* after a stop() called later.
C27_StartNotLost ==
    [][\A p \in Procs :
          (calls'[p].start # calls[p].start \/ calls'[p].again # calls[p].again) =>
             /\ isRunning'[p]
             /\ ~shouldStop'[p]
             /\ \E l \in Slots : loop'[l].proc = p /\ loop'[l].pc # "none"]_vars

\* C28: in a fetchDigest call past its DNS check the premium provider is
\* called only after every Tier 1 attempt (the direct fetch and all relay
\* fetches) has failed, one premium request at a time; the call returns at
\* the first validated content, of Tier 1 or of the provider, and throws only
\* when Tier 1 and the configured provider have failed.
C28_TierOrder ==
    [][/\ (race.tier2 = "none" /\ race'.tier2 # "none") =>
             /\ race'.tier2 = "fetch"
             /\ \A a \in Attempts : race'.att[a] = "rejected"
             /\ race.pc = "racing"
       /\ (race.tier2 # "none" /\ race'.tier2 # race.tier2) =>
             /\ race.tier2 = "fetch"
             /\ race'.tier2 \in {"fulfilled", "rejected"}
       /\ (race.pc = "racing" /\ \E a \in Attempts : race'.att[a] = "fulfilled") =>
             /\ race'.pc = "returned"
             /\ race'.tier2 = "none"
       /\ (race.tier2 = "fetch" /\ race'.tier2 = "fulfilled") =>
             /\ race'.pc = "returned"
             /\ race'.proxyName = ZenRows
             /\ ~race'.raw_html.blocked /\ race'.raw_html.len >= MIN_HTML_LENGTH
       /\ (race.pc # "thrown" /\ race'.pc = "thrown") =>
             /\ \A a \in Attempts : race'.att[a] = "rejected"
             /\ race'.zenKey => race'.tier2 = "rejected"
             /\ race'.err = BulletproofError("bar.test")
       /\ race.pc \in {"returned", "thrown"} =>
             (race'.pc = race.pc /\ race'.tier2 = race.tier2)]_vars

\* the call has returned the provider's content after all five Tier 1
\* attempts failed
C28_Witness ==
    /\ race.pc = "returned"
    /\ race.tier2 = "fulfilled"
    /\ race.proxyName = ZenRows
    /\ \A a \in Attempts : race.att[a] = "rejected"

\* C29: a direct fetch of an https:// target that fails at the transport
\* level (network error, timeout) is retried once over http:// before the
\* direct attempt is reported failed, and the retry is never retried: its
\* response settles the attempt.
C29_HttpRetry ==
    [][/\ (race.https /\ race.att[0] = "fetch" /\ race'.att[0] # "fetch" /\ race'.got[0] = "error") =>
             race'.att[0] = "httpRetry"
       /\ (race.att[0] = "httpRetry" /\ race'.att[0] # "httpRetry") =>
             race'.att[0] \in {"fulfilled", "rejected"}]_vars

\* C30: within one chunk two items of the same domain, for which no cache
\* entry existed, do not both scrape it: fetchDigest is called at most once
\* per domain and chunk.
C30_ScrapeOnce ==
    \A l \in Slots :
       \A i, k \in loop[l].fetchCalled :
          DomainOf(i) = DomainOf(k) => i = k

\* C31: when the query returns several qualifying enrichment rows for one
\* domain, the domain cache entry built for the chunk is the first of them
\* in query order: a later row of the same domain does not replace it.
C31_FirstRowWins ==
    [][\A l \in Slots :
          (loop[l].pc = "cacheE" /\ loop'[l].pc = "cacheD") =>
             \A d \in Domains :
                LET of == {k \in 1..Len(loop'[l].rows) :
                             contacts[loop'[l].rows[k]].company_website = d}
                IN  of # {} =>
                       LET first == CHOOSE k \in of : \A m \in of : k <= m
                       IN  loop'[l].domainCache[d].classification =
                              enrichments[loop'[l].rows[first]].classification]_vars

C33_StoredDigest ==
    [][\A l \in Slots :
          /\ (loop[l].pc \in {"update", "cacheD"} /\ loop'[l].pc = "pipeline") =>
                \A i \in loop'[l].chunk :
                   (/\ DomainOf(i) # ""
                    /\ scraped[DomainOf(i)] # ""
                    /\ loop'[l].domainCache[DomainOf(i)] = NoEntry) =>
                      /\ loop'[l].ipc[i] \in {"qAI", "ai"}
                      /\ loop'[l].dig[i] = scraped[DomainOf(i)]
                      /\ i \notin loop'[l].fetchCalled
          /\ \A i \in Items :
                (loop[l].pc = "pipeline" /\ loop[l].ipc[i] = "fetch" /\ loop'[l].ipc[i] \in {"qAI", "ai"}) =>
                   \E w \in inflight' :
                      w.domain = DomainOf(i) /\ w.content = loop'[l].dig[i]]_vars

\* the texts of the pieces a digest is made of
DigestTexts(digest) ==
    {digest.TITLE[k].text : k \in 1..Len(digest.TITLE)}
    \cup {digest.META_DESCRIPTION[k].text : k \in 1..Len(digest.META_DESCRIPTION)}
    \cup UNION {{digest.H1[h][k].text : k \in 1..Len(digest.H1[h])} : h \in 1..Len(digest.H1)}
    \cup UNION {{digest.H2[h][k].text : k \in 1..Len(digest.H2[h])} : h \in 1..Len(digest.H2)}
    \cup {digest.VISIBLE_TEXT_SNIPPET[k].text : k \in 1..Len(digest.VISIBLE_TEXT_SNIPPET)}

\* C34: processHtmlToDigest strips the whole raw page before it caps it: what is left
\* holds no opening script, style, svg or template tag, no complete comment, no
\* stylesheet link and no inline style attribute.  The title, the meta description,
\* the H1s, the H2s and the visible text are those of the first MAX_HTML_BYTES of the
\* stripped page, and there are at most 4 H1s and at most 8 H2s.
C34_StripThenCap ==
    call.fn = "processHtmlToDigest" =>
        LET stripped == StripCssJs(call.arg[1])
            clean == Slice(stripped, MAX_HTML_BYTES)
            digest == call.ret[1]
        IN  /\ \A k \in 1..Len(stripped) :
                  /\ stripped[k].kind # "link"
                  /\ stripped[k].text # "<p style='color:red'>"
                  /\ stripped[k].kind = "open" =>
                        /\ stripped[k].tag \notin {"script", "style", "svg", "template"}
                        /\ stripped[k].tag = "!--" =>
                              \A j \in (k + 1)..Len(stripped) : ~IsClose(stripped[j], "!--", FALSE)
            /\ Length(clean) <= MAX_HTML_BYTES
            /\ digest.TITLE = ExtractOne(clean, "title")
            /\ digest.META_DESCRIPTION = ExtractOne(clean, "meta")
            /\ digest.H1 = ExtractMany(clean, "h1", 4)
            /\ digest.H2 = ExtractMany(clean, "h2", 8)
            /\ digest.VISIBLE_TEXT_SNIPPET = GetVisibleText(clean, VISIBLE_TEXT_CHARS)
            /\ Len(digest.H1) <= 4
            /\ Len(digest.H2) <= 8
            /\ Length(digest.VISIBLE_TEXT_SNIPPET) <= VISIBLE_TEXT_CHARS

\* a raw page longer than MAX_HTML_BYTES whose headings lie behind a script block, with
\* more headings than the digest takes
C34_Witness ==
    /\ call.fn = "processHtmlToDigest"
    /\ Length(call.arg[1]) > MAX_HTML_BYTES
    /\ \E k \in 1..Len(call.arg[1]) : IsOpen(call.arg[1][k], "script")
    /\ Len(call.ret[1].H1) = 4
    /\ Len(call.ret[1].H2) = 8

C36_JobStatusKept ==
    [][/\ \A j \in Jobs :
             /\ jobs'[j].status = jobs[j].status
             /\ jobs'[j].total_items = jobs[j].total_items
       /\ \A p \in Procs :
             (/\ RecoverDone(p)
              /\ \E j \in Jobs : jobs[j].status \in {"pending", "processing"}) =>
                 /\ isRunning'[p]
                 /\ \E l \in Slots : loop'[l].pc # "none" /\ loop'[l].proc = p]_vars

\* after a crash recoverStaleJobs is about to count the jobs: the controller is stopped,
\* every item is completed or failed and counted, and the job is still processing
C36_Witness ==
    \E p \in procs :
        /\ rec[p].pc = "count"
        /\ ~isRunning[p]
        /\ crashes > 0
        /\ \A i \in DOMAIN items : items[i].status \in {"completed", "failed"}
        /\ \E j \in Jobs :
              /\ jobs[j].status = "processing"
              /\ jobs[j].total_items > 0
              /\ jobs[j].completed_items + jobs[j].failed_items = jobs[j].total_items

\* C39: every job item that is processing has a locked_at, and every job item that
\* is pending or retrying has none, whatever claims, aggregations and recoveries
\* have been made.
C39_LockedAt ==
    \A i \in DOMAIN items :
        /\ items[i].status = "processing" => items[i].locked_at # Null
        /\ items[i].status \in {"pending", "retrying"} => items[i].locked_at = Null

\* an item claimed again after an aggregation has put it to retrying, with a recovery
\* after a crash in between or before
C39_Witness ==
    \E i \in DOMAIN items :
        /\ items[i].status = "processing"
        /\ items[i].locked_at # Null
        /\ items[i].attempt_count > 0
        /\ crashes > 0
        /\ \E p \in procs : calls[p].recover > 0 /\ rec[p].pc = "idle"

\* C38: once stop() has set the flag of the running controller, the poll loop ends and
\* isRunning becomes false, provided the calls of the current chunk return; a start()
\* call made after that launches a new poll loop with the flag cleared.
C38_StopEnds ==
    /\ (\E p \in Procs : isRunning[p] /\ shouldStop[p]) ~> (\A p \in Procs : ~isRunning[p])
    /\ [][\A p \in Procs :
             (~isRunning[p] /\ calls'[p].start # calls[p].start) =>
                 /\ isRunning'[p]
                 /\ ~shouldStop'[p]
                 /\ \E l \in Slots : /\ loop[l].pc = "none"
                                     /\ loop'[l].proc = p
                                     /\ loop'[l].pc = "select"]_vars

\* the controller runs again, by a start() made after the loop that a stop() ended
C38_Witness ==
    \E p \in procs :
        /\ calls[p].stop > 0
        /\ calls[p].start = 2
        /\ isRunning[p]
        /\ ~shouldStop[p]

LoopStep ==
    \/ \E l \in Slots : Wake(l)
    \/ \E l \in Slots : Select(l)
    \/ \E l \in Slots : Update(l)
    \/ \E l \in Slots : CacheEnrich(l)
    \/ \E l \in Slots : CacheDigest(l)
    \/ \E l \in Slots, i \in Items : Fetch(l, i)
    \/ \E l \in Slots, i \in Items : Classify(l, i)
    \/ \E w \in inflight : PersistDigest(w)
    \/ \E l \in Slots : UpsertItems(l)
    \/ \E l \in Slots : UpsertContacts(l)
    \/ \E l \in Slots : UpsertEnrichments(l)
    \/ \E l \in Slots : JobRead(l)
    \/ \E l \in Slots : JobWrite(l)
    \/ \E l \in Slots : PipelineState(l)
    \/ Tick

Next ==
    \/ \E p \in Procs : StartCall(p)
    \/ LoopStep

NextRecovery ==
    \/ \E p \in Procs : StartCall(p)
    \/ \E p \in Procs : RecoverCall(p)
    \/ \E p \in Procs : RecoverUpdate(p)
    \/ \E p \in Procs : RecoverCount(p)
    \/ \E p \in Procs : Crash(p)
    \/ LoopStep

NextControl ==
    \/ \E p \in Procs : StartCall(p)
    \/ \E p \in Procs : Stop(p)
    \/ \E p \in Procs : RecoverCall(p)
    \/ \E p \in Procs : RecoverUpdate(p)
    \/ \E p \in Procs : RecoverCount(p)
    \/ LoopStep

NextStop ==
    \/ \E p \in Procs : StartCall(p)
    \/ \E p \in Procs : Stop(p)
    \/ LoopStep

NextFault ==
    \/ \E p \in Procs : StartCall(p)
    \/ \E p \in Procs : Stop(p)
    \/ \E l \in Slots : Throw(l)
    \/ LoopStep

NextRace ==
    \/ StartRace
    \/ \E a \in Attempts : Respond(a)
    \/ ZenRowsRespond

NextValidate ==
    \/ ValidateHtmlCall

NextDigest ==
    \/ ProcessHtmlToDigestCall
    \/ ProcessHtmlToDigestAgain

NextClassifier ==
    \/ NormalizeConfidenceCall
    \/ EnrichSingleCall

Spec == Init /\ [][Next]_vars
SpecRecovery == InitRecovery /\ [][NextRecovery]_vars
SpecControl == InitControl /\ [][NextControl]_vars
SpecTwo == InitTwo /\ [][Next]_vars
SpecShared == InitShared /\ [][Next]_vars
SpecCached == InitCached /\ [][Next]_vars
SpecFault == InitFault /\ [][NextFault]_vars
SpecRace == InitRace /\ [][NextRace]_vars
SpecValidate == InitValidate /\ [][NextValidate]_vars
SpecClassifier == InitClassifier /\ [][NextClassifier]_vars
SpecDigest == InitDigest /\ [][NextDigest]_vars

\* the event loop runs every continuation that is ready, timers fire, and the calls a
\* chunk awaits return
SpecStop == InitStop /\ [][NextStop]_vars /\ WF_vars(LoopStep)
SpecLive == InitLive /\ [][Next]_vars /\ WF_vars(LoopStep)

====
